---- MODULE Spec2Model ----
(***************************************************************************)
(* A model of tslox, a tree-walking Lox interpreter written in TypeScript. *)
(*                                                                         *)
(* The REPL of scripts/lox.ts keeps one Interpreter and one Resolver and   *)
(* feeds them one parsed input after the other.  The model keeps the       *)
(* fields of those two objects as variables; the resolver pass and the     *)
(* evaluator are big-step operators over the AST that thread the object    *)
(* state and the exception (if any) that is in flight.                     *)
(***************************************************************************)
EXTENDS Integers, Sequences, FiniteSets, TLC

(***************************************************************************)
(* Bounds of the model.                                                    *)
(***************************************************************************)
\* number of inputs typed into one REPL session
MaxInputs == 2
\* nesting of LoxFunction.call before the host stack overflows (RangeError)
MaxCallDepth == 3
\* iterations of one `while` statement that the model follows
MaxLoop == 3
\* environments, the global one among them, when they are used on their own
MaxEnvs == 3

(***************************************************************************)
(* Runtime values.  `undefined` is the JavaScript value a function without *)
(* a return statement yields; Lox nil is JavaScript null.                  *)
(***************************************************************************)
Nil == [t |-> "nil"]
Undefined == [t |-> "undefined"]
Bool(b) == [t |-> "boolean", b |-> b]
Num(n) == [t |-> "number", n |-> n]
Str(x) == [t |-> "string", x |-> x]
FnRef(i) == [t |-> "LoxFunction", fn |-> i]
ClassRef(i) == [t |-> "LoxClass", cls |-> i]
InstRef(i) == [t |-> "LoxInstance", inst |-> i]
Clock == [t |-> "native"]

(***************************************************************************)
(* The AST.  Variable, Assignement, This and Super nodes carry an id: the  *)
(* interpreter keys its resolution map by object identity of these nodes.  *)
(***************************************************************************)
NoExpr == [type |-> "None"]
NoStmt == [type |-> "NoStmt"]
Literal(v) == [type |-> "Literal", literal |-> v]
Variable(id, name) == [type |-> "Variable", id |-> id, name |-> name]
Assignement(id, name, value) ==
    [type |-> "Assignement", id |-> id, name |-> name, value |-> value]
Binary(left, operator, right) ==
    [type |-> "Binary", left |-> left, operator |-> operator, right |-> right]
Unary(operator, value) == [type |-> "Unary", operator |-> operator, value |-> value]
Grouping(expression) == [type |-> "Grouping", expression |-> expression]
Call(callee, argumentsList) ==
    [type |-> "Call", callee |-> callee, argumentsList |-> argumentsList]
GetExpr(object, name) == [type |-> "Get", object |-> object, name |-> name]
SetExpr(object, name, value) ==
    [type |-> "Set", object |-> object, name |-> name, value |-> value]
This(id) == [type |-> "This", id |-> id]
Super(id, method) == [type |-> "Super", id |-> id, method |-> method]

PrintStatement(exp) == [type |-> "Print", exp |-> exp]
ExpressionStatement(exp) == [type |-> "Expression", exp |-> exp]
VariableDeclarationStatement(name, initializer) ==
    [type |-> "VariableDeclaration", name |-> name, initializer |-> initializer]
BlockStatement(statements) == [type |-> "Block", statements |-> statements]
IfStatement(condition, thenBranch, elseBranch) ==
    [type |-> "If", condition |-> condition, thenBranch |-> thenBranch,
     elseBranch |-> elseBranch]
WhileStatement(condition, body) ==
    [type |-> "While", condition |-> condition, body |-> body]
FuncStatement(name, params, body) ==
    [type |-> "Func", name |-> name, params |-> params, body |-> body]
RetStatement(value) == [type |-> "Ret", value |-> value]
ClassStatement(name, superClass, methods) ==
    [type |-> "Class", name |-> name, superClass |-> superClass, methods |-> methods]

(***************************************************************************)
(* Results of an evaluation step: the object state afterwards, the kind of *)
(* completion ("ok" or the name of the exception in flight) and a value    *)
(* (the result, the payload of a ReturnError, or the error message).       *)
(***************************************************************************)
GlobalEnv == 1

Ok(s, v) == [s |-> s, k |-> "ok", v |-> v]

\* throw new <kind>(message); history: a RuntimeException notes the global
\* bindings at the throw
Throw(s, kind, message) ==
    [s |-> IF kind = "RuntimeException"
           THEN [s EXCEPT !.atThrow = s.envs[GlobalEnv].data] ELSE s,
     k |-> kind, v |-> Str(message)]

(***************************************************************************)
(* environment.ts.  s.envs is the heap of Environment objects; 0 stands    *)
(* for a missing (undefined) enclosing environment.                        *)
(***************************************************************************)
NewEnvironment(s, enclosing) ==
    [s EXCEPT !.envs = Append(@, [data |-> <<>>, enclosing |-> enclosing])]

Env_define(s, env, name, value) ==
    [s EXCEPT !.envs[env].data = (name :> value) @@ @]

\* assign that creates the binding in the outermost environment when no
\* environment of the chain holds the name
RECURSIVE Env_assignOrDefine(_, _, _, _)
Env_assignOrDefine(s, env, name, value) ==
    IF name \in DOMAIN s.envs[env].data \/ s.envs[env].enclosing = 0
    THEN Ok([s EXCEPT !.envs[env].data = (name :> value) @@ @], Undefined)
    ELSE Env_assignOrDefine(s, s.envs[env].enclosing, name, value)

RECURSIVE Env_assign(_, _, _, _)
Env_assign(s, env, name, value) ==
    IF name \in DOMAIN s.envs[env].data
    THEN Ok([s EXCEPT !.envs[env].data[name] = value], Undefined)
    ELSE IF s.envs[env].enclosing # 0
         THEN Env_assign(s, s.envs[env].enclosing, name, value)
         ELSE Throw(s, "RuntimeException", "Variable missing decleration")

RECURSIVE Env_get(_, _, _)
Env_get(s, env, name) ==
    IF name \in DOMAIN s.envs[env].data
    THEN Ok(s, s.envs[env].data[name])
    ELSE IF s.envs[env].enclosing # 0
         THEN Env_get(s, s.envs[env].enclosing, name)
         ELSE Throw(s, "RuntimeException", "Undefined variable")

\* the environment `distance` enclosing links out, 0 when the chain is shorter
RECURSIVE Env_ancestor(_, _, _)
Env_ancestor(s, env, distance) ==
    IF distance = 0 \/ env = 0 THEN env
    ELSE Env_ancestor(s, s.envs[env].enclosing, distance - 1)

\* ancestor() walking off the chain leaves undefined, whose use is a TypeError
Env_getAt(s, env, distance, name) ==
    LET a == Env_ancestor(s, env, distance) IN
    IF a = 0 THEN Throw(s, "TypeError", "Cannot read properties of undefined")
    ELSE Env_get(s, a, name)

Env_assignAt(s, env, distance, name, value) ==
    LET a == Env_ancestor(s, env, distance) IN
    IF a = 0 THEN Throw(s, "TypeError", "Cannot read properties of undefined")
    ELSE Env_assign(s, a, name, value)

(***************************************************************************)
(* resolver.ts.  r is the Resolver object (scopes, currentFunction,        *)
(* currentClass) together with the interpreter's resolution map `locals`   *)
(* that Interpreter.resolve fills and the Error thrown, "" when none.      *)
(* scopes[1] is the innermost scope (scopes[0] of the source, which        *)
(* unshifts).  A thrown Error leaves the fields as they are at the throw:  *)
(* the resolver has no try/finally.                                        *)
(***************************************************************************)
NewResolver == [scopes |-> <<>>, currentFunction |-> "NONE", currentClass |-> "NONE"]

ResolveError(r, message) == [r EXCEPT !.err = message]

Interpreter_resolve(r, expr, depth) ==
    [r EXCEPT !.locals = (expr.id :> depth) @@ @]

Resolver_beginScope(r) ==
    IF r.err # "" THEN r ELSE [r EXCEPT !.scopes = <<(<<>>)>> \o @]

\* endScope that leaves the scope on the stack
Resolver_endScopeKept(r) == r

Resolver_endScope(r) ==
    IF r.err # "" THEN r ELSE [r EXCEPT !.scopes = Tail(@)]

\* scopes[0].set(name, flag)
ScopeSet(r, name, flag) ==
    IF r.err # "" THEN r ELSE [r EXCEPT !.scopes[1] = (name :> flag) @@ @]

\* declare without the check for a name the scope already holds
Resolver_declareAgain(r, name) ==
    IF r.err # "" THEN r
    ELSE IF Len(r.scopes) = 0 THEN r
    ELSE ScopeSet(r, name, FALSE)

Resolver_declare(r, name) ==
    IF r.err # "" THEN r
    ELSE IF Len(r.scopes) = 0 THEN r
    ELSE IF name \in DOMAIN r.scopes[1]
         THEN ResolveError(r, "Duplicate variable declaration")
         ELSE ScopeSet(r, name, FALSE)

Resolver_define(r, name) ==
    IF r.err # "" THEN r
    ELSE IF Len(r.scopes) = 0 THEN r
    ELSE ScopeSet(r, name, TRUE)

\* this.scopes[i].get(name) is truthy: the scope holds name and maps it to true
ScopeHolds(scope, name) == name \in DOMAIN scope /\ scope[name]

RECURSIVE ResolveLocalFrom(_, _, _, _)
ResolveLocalFrom(r, expr, name, i) ==
    IF i > Len(r.scopes) THEN r
    ELSE IF ScopeHolds(r.scopes[i], name) THEN Interpreter_resolve(r, expr, i - 1)
    ELSE ResolveLocalFrom(r, expr, name, i + 1)

Resolver_resolveLocal(r, expr, name) ==
    IF r.err # "" THEN r ELSE ResolveLocalFrom(r, expr, name, 1)

\* visitVariable without the check for a declared, not yet defined name
Resolver_visitVariableUnchecked(r, expr) ==
    IF r.err # "" THEN r ELSE Resolver_resolveLocal(r, expr, expr.name)

Resolver_visitVariable(r, expr) ==
    IF r.err # "" THEN r
    ELSE IF Len(r.scopes) > 0 /\ expr.name \in DOMAIN r.scopes[1]
            /\ r.scopes[1][expr.name] = FALSE
         THEN ResolveError(r, "Can't read local variable in its own initializer.")
         ELSE Resolver_resolveLocal(r, expr, expr.name)

\* visitThis without the check of currentClass
Resolver_visitThisUnchecked(r, expr) ==
    IF r.err # "" THEN r ELSE Resolver_resolveLocal(r, expr, "this")

Resolver_visitThis(r, expr) ==
    IF r.err # "" THEN r
    ELSE IF r.currentClass = "NONE"
         THEN ResolveError(r, "Can't use 'this' outside of a class.")
         ELSE Resolver_resolveLocal(r, expr, "this")

Resolver_visitSuper(r, expr) ==
    IF r.err # "" THEN r
    ELSE IF r.currentClass = "NONE"
         THEN ResolveError(r, "Can't use 'super' outside of a class.")
    ELSE IF r.currentClass # "SUBCLASS"
         THEN ResolveError(r, "Can't use 'super' in a class with no superclass.")
    ELSE Resolver_resolveLocal(r, expr, "super")

SetCurrentFunction(r, type) ==
    IF r.err # "" THEN r ELSE [r EXCEPT !.currentFunction = type]

SetCurrentClass(r, type) ==
    IF r.err # "" THEN r ELSE [r EXCEPT !.currentClass = type]

RECURSIVE Resolver_resolveExpr(_, _)
RECURSIVE Resolver_resolveExprs(_, _, _)
RECURSIVE Resolver_resolveStmt(_, _)
RECURSIVE Resolver_resolveStmts(_, _, _)
RECURSIVE Resolver_resolveFunction(_, _, _)
RECURSIVE Resolver_resolveMethods(_, _, _)
RECURSIVE Resolver_declareParams(_, _, _)

\* resolve(expression): visitExpression dispatch on the node type
Resolver_resolveExpr(r, e) ==
    IF r.err # "" THEN r
    ELSE CASE e.type = "Literal" -> r
           [] e.type = "Variable" -> Resolver_visitVariable(r, e)
           [] e.type = "Assignement" ->
                Resolver_resolveLocal(Resolver_resolveExpr(r, e.value), e, e.name)
           [] e.type = "Binary" ->
                Resolver_resolveExpr(Resolver_resolveExpr(r, e.left), e.right)
           [] e.type = "Unary" -> Resolver_resolveExpr(r, e.value)
           [] e.type = "Grouping" -> Resolver_resolveExpr(r, e.expression)
           [] e.type = "Call" ->
                Resolver_resolveExprs(Resolver_resolveExpr(r, e.callee), e.argumentsList, 1)
           [] e.type = "Get" -> Resolver_resolveExpr(r, e.object)
           [] e.type = "Set" ->
                Resolver_resolveExpr(Resolver_resolveExpr(r, e.object), e.value)
           [] e.type = "This" -> Resolver_visitThis(r, e)
           [] e.type = "Super" -> Resolver_visitSuper(r, e)

Resolver_resolveExprs(r, es, i) ==
    IF r.err # "" \/ i > Len(es) THEN r
    ELSE Resolver_resolveExprs(Resolver_resolveExpr(r, es[i]), es, i + 1)

\* resolve(statements): forEach over the array
Resolver_resolveStmts(r, stmts, i) ==
    IF r.err # "" \/ i > Len(stmts) THEN r
    ELSE Resolver_resolveStmts(Resolver_resolveStmt(r, stmts[i]), stmts, i + 1)

Resolver_declareParams(r, params, i) ==
    IF r.err # "" \/ i > Len(params) THEN r
    ELSE Resolver_declareParams(
             Resolver_define(Resolver_declare(r, params[i]), params[i]), params, i + 1)

Resolver_resolveFunction(r, statement, type) ==
    IF r.err # "" THEN r
    ELSE LET enclosingFunction == r.currentFunction
             r1 == Resolver_beginScope(SetCurrentFunction(r, type))
             r2 == Resolver_declareParams(r1, statement.params, 1)
             r3 == Resolver_resolveStmts(r2, statement.body, 1)
         IN  SetCurrentFunction(Resolver_endScope(r3), enclosingFunction)

Resolver_visitRetStatement(r, statement) ==
    IF r.err # "" THEN r
    ELSE IF r.currentFunction = "NONE"
         THEN ResolveError(r, "Can't return from top-level code.")
    ELSE IF r.currentFunction = "INITIALIZER"
         THEN ResolveError(r, "Can't return a value from an initializer.")
    ELSE IF statement.value # NoExpr THEN Resolver_resolveExpr(r, statement.value)
    ELSE r

Resolver_visitVariableDeclarationStatement(r, statement) ==
    LET r1 == Resolver_declare(r, statement.name)
        r2 == IF statement.initializer # NoExpr
              THEN Resolver_resolveExpr(r1, statement.initializer) ELSE r1
    IN  Resolver_define(r2, statement.name)

Resolver_visitFuncStatement(r, statement) ==
    Resolver_resolveFunction(
        Resolver_define(Resolver_declare(r, statement.name), statement.name),
        statement, "FUNCTION")

\* visitBlockStatement that resolves the statements in the enclosing scope
Resolver_visitBlockStatementFlat(r, statement) ==
    Resolver_resolveStmts(r, statement.statements, 1)

Resolver_visitBlockStatement(r, statement) ==
    Resolver_endScope(Resolver_resolveStmts(Resolver_beginScope(r), statement.statements, 1))

Resolver_resolveMethods(r, methods, i) ==
    IF r.err # "" \/ i > Len(methods) THEN r
    ELSE Resolver_resolveMethods(
             Resolver_resolveFunction(r, methods[i],
                 IF methods[i].name = "init" THEN "INITIALIZER" ELSE "METHOD"),
             methods, i + 1)

Resolver_visitClassStatement(r, statement) ==
    IF r.err # "" THEN r
    ELSE LET enclosingClass == r.currentClass
             hasSuper == statement.superClass # NoExpr
             r1 == Resolver_define(
                       Resolver_declare(SetCurrentClass(r, "CLASS"), statement.name),
                       statement.name)
             r2 == IF ~hasSuper THEN r1
                   ELSE IF r1.err = "" /\ statement.name = statement.superClass.name
                        THEN ResolveError(r1, "A class can't inherit from itself")
                        ELSE Resolver_resolveExpr(SetCurrentClass(r1, "SUBCLASS"),
                                                  statement.superClass)
             r3 == IF hasSuper THEN ScopeSet(Resolver_beginScope(r2), "super", TRUE)
                   ELSE r2
             r4 == ScopeSet(Resolver_beginScope(r3), "this", TRUE)
             r5 == Resolver_resolveMethods(r4, statement.methods, 1)
             r6 == Resolver_endScope(r5)
             r7 == IF hasSuper THEN Resolver_endScope(r6) ELSE r6
         IN  SetCurrentClass(r7, enclosingClass)

\* resolve(statement): visitStatement dispatch on the node type
Resolver_resolveStmt(r, st) ==
    IF r.err # "" THEN r
    ELSE CASE st.type = "Print" -> Resolver_resolveExpr(r, st.exp)
           [] st.type = "Expression" -> Resolver_resolveExpr(r, st.exp)
           [] st.type = "VariableDeclaration" ->
                Resolver_visitVariableDeclarationStatement(r, st)
           [] st.type = "Block" -> Resolver_visitBlockStatement(r, st)
           [] st.type = "If" ->
                LET r1 == Resolver_resolveStmt(
                              Resolver_resolveExpr(r, st.condition), st.thenBranch)
                IN  IF st.elseBranch # NoStmt
                    THEN Resolver_resolveStmt(r1, st.elseBranch) ELSE r1
           [] st.type = "While" ->
                Resolver_resolveStmt(Resolver_resolveExpr(r, st.condition), st.body)
           [] st.type = "Func" -> Resolver_visitFuncStatement(r, st)
           [] st.type = "Ret" -> Resolver_visitRetStatement(r, st)
           [] st.type = "Class" -> Resolver_visitClassStatement(r, st)

\* resolver.resolve(ast) as the driver calls it
Resolver_resolve(r, statements) == Resolver_resolveStmts(r, statements, 1)

(***************************************************************************)
(* interpreter.ts.  s is the Interpreter object and the heap it reaches:   *)
(*   envs, fns, classes, insts  the Environment, LoxFunction, LoxClass and *)
(*                              LoxInstance objects, identified by index   *)
(*   environment                Interpreter.environment                    *)
(*   locals                     Interpreter.locals, the resolution map     *)
(*   out                        the lines written, each the tuple of the   *)
(*                              arguments of one console.log call          *)
(*   depth                      the nesting of LoxFunction.call            *)
(*   now                        the host clock read by the native clock()  *)
(* and, as history of the input being interpreted (the program never      *)
(* reads these):                                                           *)
(*   blocks    one entry per finished executeBlock call                    *)
(*   assigns   one entry per evaluated Assignement expression              *)
(*   reads     one entry per successful lookupVariable                     *)
(*   calls     one entry per LoxFunction invoked by a Call expression      *)
(*   frame     the LoxFunction being executed (0 at top level) and the     *)
(*             number of environments that existed when its call began     *)
(*   visible   per LoxFunction, the environment that held each name        *)
(*             visible from its closure when it was declared               *)
(*   atThrow   the global bindings when the last RuntimeException was      *)
(*             thrown                                                      *)
(*   supers    one entry per evaluated Super expression                    *)
(*   lookups   one entry per getAt / assignAt call made for a node that    *)
(*             has a depth in the resolution map                           *)
(***************************************************************************)
\* the first environment of the chain from env that holds name, 0 if none
RECURSIVE EnvHolding(_, _, _)
EnvHolding(s, env, name) ==
    IF env = 0 THEN 0
    ELSE IF name \in DOMAIN s.envs[env].data THEN env
    ELSE EnvHolding(s, s.envs[env].enclosing, name)

\* every name visible from env, with the environment that holds it
RECURSIVE VisibleFrom(_, _)
VisibleFrom(s, env) ==
    IF env = 0 THEN <<>>
    ELSE [n \in DOMAIN s.envs[env].data |-> env]
         @@ VisibleFrom(s, s.envs[env].enclosing)

\* history: the visible names of the LoxFunction just created
NoteVisible(s) ==
    [s EXCEPT !.visible = Append(@, VisibleFrom(s, s.fns[Len(s.fns)].closure))]

TypeOf(v) ==
    IF v.t \in {"number", "string", "boolean", "undefined"} THEN v.t ELSE "object"

isTruthy(value) ==
    IF value = Nil THEN FALSE
    ELSE IF value.t = "boolean" THEN value.b
    ELSE TRUE

isEqual(left, right) == left = right

\* stringify(value); value.toString() of undefined is a TypeError
stringify(s, value) ==
    CASE value = Nil -> Ok(s, "nil")
      [] value.t = "number" -> Ok(s, ToString(value.n))
      [] value.t = "undefined" ->
            Throw(s, "TypeError", "Cannot read properties of undefined")
      [] value.t = "boolean" -> Ok(s, IF value.b THEN "true" ELSE "false")
      [] value.t = "string" -> Ok(s, value.x)
      [] value.t = "LoxFunction" -> Ok(s, "fn<" \o s.fns[value.fn].name \o ">")
      [] value.t = "LoxClass" -> Ok(s, s.classes[value.cls].name)
      [] value.t = "LoxInstance" ->
            Ok(s, s.classes[s.insts[value.inst].klass].name \o " instance")
      [] value.t = "native" -> Ok(s, "[object Object]")

NewLoxFunction(s, name, params, body, closure, isInitializer) ==
    [s EXCEPT !.fns = Append(@, [name |-> name, params |-> params, body |-> body,
                                 closure |-> closure,
                                 isInitializer |-> isInitializer])]

\* bindFunc that defines `this` in the closure of the method itself
LoxFunction_bindFuncInClosure(s, fn, instance) ==
    LET f == s.fns[fn]
        s2 == Env_define(s, f.closure, "this", instance)
        s3 == NewLoxFunction(s2, f.name, f.params, f.body, f.closure, FALSE)
        s4 == [s3 EXCEPT !.visible =
                   Append(@, ("this" :> f.closure) @@ s3.visible[fn])]
    IN  Ok(s4, FnRef(Len(s4.fns)))

\* bindFunc builds the bound function without passing isInitializer on
LoxFunction_bindFunc(s, fn, instance) ==
    LET f == s.fns[fn]
        s1 == NewEnvironment(s, f.closure)
        environment == Len(s1.envs)
        s2 == Env_define(s1, environment, "this", instance)
        s3 == NewLoxFunction(s2, f.name, f.params, f.body, environment, FALSE)
        s4 == [s3 EXCEPT !.visible =
                   Append(@, ("this" :> environment) @@ s3.visible[fn])]
    IN  Ok(s4, FnRef(Len(s4.fns)))

\* the method as a LoxFunction index, 0 for null; a superClass value that is
\* not a LoxClass has no findMethod
RECURSIVE LoxClass_findMethod(_, _, _)
LoxClass_findMethod(s, cls, key) ==
    LET c == s.classes[cls] IN
    IF key \in DOMAIN c.methods THEN Ok(s, c.methods[key])
    ELSE IF c.superClass # Nil
         THEN IF c.superClass.t = "LoxClass"
              THEN LoxClass_findMethod(s, c.superClass.cls, key)
              ELSE Throw(s, "TypeError", "findMethod is not a function")
         ELSE Ok(s, 0)

\* get that looks for a method before it looks at the fields
LoxInstance_getMethodFirst(s, inst, key) ==
    LET m == LoxClass_findMethod(s, s.insts[inst].klass, key) IN
    IF m.k # "ok" THEN m
    ELSE IF m.v # 0 THEN LoxFunction_bindFunc(s, m.v, InstRef(inst))
    ELSE IF key \in DOMAIN s.insts[inst].fields
    THEN Ok(s, s.insts[inst].fields[key])
    ELSE Throw(s, "RuntimeException", "Undefined property")

LoxInstance_get(s, inst, key) ==
    IF key \in DOMAIN s.insts[inst].fields
    THEN Ok(s, s.insts[inst].fields[key])
    ELSE LET m == LoxClass_findMethod(s, s.insts[inst].klass, key) IN
         IF m.k # "ok" THEN m
         ELSE IF m.v # 0 THEN LoxFunction_bindFunc(s, m.v, InstRef(inst))
         ELSE Throw(s, "RuntimeException", "Undefined property")

LoxInstance_set(s, inst, key, value) ==
    [s EXCEPT !.insts[inst].fields = (key :> value) @@ @]

LoxFunction_airity(s, fn) == Len(s.fns[fn].params)

LoxClass_airity(s, cls) ==
    LET m == LoxClass_findMethod(s, cls, "init") IN
    IF m.k # "ok" THEN m
    ELSE IF m.v # 0 THEN Ok(s, LoxFunction_airity(s, m.v))
    ELSE Ok(s, 0)

\* the truthiness of callee.call / obj.get / obj.set: reading a property of
\* null or undefined is a TypeError, a missing property is undefined
HasMember(value, types) ==
    IF value.t \in {"nil", "undefined"} THEN "TypeError"
    ELSE IF value.t \in types THEN "yes" ELSE "no"

\* locals.get(exp): the recorded depth, -1 for undefined
LocalsGet(s, exp) == IF exp.id \in DOMAIN s.locals THEN s.locals[exp.id] ELSE -1

\* history: the environment in which a lookup found its name
NoteRead(s, r, name, exp, from) ==
    IF r.k # "ok" THEN r
    ELSE [r EXCEPT !.s.reads = Append(@, [fn |-> s.frame.fn, base |-> s.frame.base,
                                         node |-> exp.id, name |-> name,
                                         env |-> EnvHolding(s, from, name),
                                         value |-> r.v])]

\* history: for the node exp, which has the distance in the resolution map,
\* the evaluator called getAt or assignAt from the environment of s, and the
\* call completed with r; reached is the environment that many links out
NoteLookup(r, s, exp, name, distance) ==
    [r EXCEPT !.s.lookups =
         Append(@, [node |-> exp.id, name |-> name, distance |-> distance,
                    reached |-> Env_ancestor(s, s.environment, distance),
                    holder |-> EnvHolding(s, Env_ancestor(s, s.environment, distance),
                                          name),
                    k |-> r.k])]

\* which environment lookupVariable starts its search in, 0 if none
LookupStart(s, exp) ==
    IF LocalsGet(s, exp) # -1
    THEN Env_ancestor(s, s.environment, LocalsGet(s, exp))
    ELSE GlobalEnv

\* lookupVariable without the resolution map: a search from the current
\* environment outwards
LookupVariableDynamic(s, name, exp) ==
    NoteRead(s, Env_get(s, s.environment, name), name, exp, s.environment)

Interpreter_lookupVariable(s, name, exp) ==
    LET distance == LocalsGet(s, exp)
        r == IF distance # -1
             THEN NoteLookup(Env_getAt(s, s.environment, distance, name),
                             s, exp, name, distance)
             ELSE Env_get(s, GlobalEnv, name)
    IN  NoteRead(s, r, name, exp, LookupStart(s, exp))

checkNumber(value) == value.t = "number"

checkNumberBinary(left, right) == left.t = "number" /\ right.t = "number"

\* the switch of visitBinary on the operator, both operands evaluated;
\* the quotient is followed only where it is a whole number
BinaryOp(s, operator, left, right) ==
    LET numeric(v) == IF checkNumberBinary(left, right) THEN Ok(s, v)
                      ELSE Throw(s, "RuntimeException", "expected number")
    IN
    CASE operator = "MINUS" -> numeric(Num(left.n - right.n))
      [] operator = "STAR" -> numeric(Num(left.n * right.n))
      [] operator = "SLASH" ->
            numeric(Num(IF right.n = 0 THEN 0 ELSE left.n \div right.n))
      [] operator = "PLUS" ->
            IF TypeOf(left) = TypeOf(right) /\ TypeOf(left) = "number"
            THEN Ok(s, Num(left.n + right.n))
            ELSE IF TypeOf(left) = TypeOf(right) /\ TypeOf(left) = "string"
            THEN Ok(s, Str(left.x \o right.x))
            ELSE Throw(s, "RuntimeException", "expected a string or number")
      [] operator = "GREATER" -> numeric(Bool(left.n > right.n))
      [] operator = "GREATER_EQUAL" -> numeric(Bool(left.n >= right.n))
      [] operator = "LESS" -> numeric(Bool(left.n < right.n))
      [] operator = "LESS_EQUAL" -> numeric(Bool(left.n <= right.n))
      [] operator = "BANG_EQUAL" -> Ok(s, Bool(~isEqual(left, right)))
      [] operator = "EQUAL_EQUAL" -> Ok(s, Bool(isEqual(left, right)))
      [] OTHER -> Throw(s, "Error", "Unexpected operator")

RECURSIVE Interpreter_evaluate(_, _)
RECURSIVE EvaluateArguments(_, _, _, _)
RECURSIVE Interpreter_execute(_, _)
RECURSIVE ExecuteStatements(_, _, _)
RECURSIVE Interpreter_executeBlock(_, _, _)
RECURSIVE Interpreter_whileLoop(_, _, _)
RECURSIVE LoxFunction_call(_, _, _)
RECURSIVE DefineParams(_, _, _, _, _)
RECURSIVE BuildMethods(_, _, _, _)

\* executeBlock without the try/finally: the assignment after the loop
RestoreEnvironmentAfterLoop(r, previousEnvironment) ==
    IF r.k = "ok" THEN [r.s EXCEPT !.environment = previousEnvironment] ELSE r.s

\* executeBlock restoring in a catch clause for the ReturnError only
RestoreEnvironmentOnReturn(r, previousEnvironment) ==
    IF r.k \in {"ok", "ReturnError"}
    THEN [r.s EXCEPT !.environment = previousEnvironment] ELSE r.s

\* the `finally` clause of executeBlock: runs on every completion r
RestoreEnvironment(r, previousEnvironment) ==
    [r.s EXCEPT !.environment = previousEnvironment]

\* history: the block entered in previousEnvironment is left in state s
NoteBlock(s, how, previousEnvironment) ==
    [s EXCEPT !.blocks = Append(@, [entry |-> previousEnvironment,
                                    exit |-> s.environment, how |-> how])]

\* executeBlock from the end of its loop (completion r) on
BlockCompletion(r, previousEnvironment) ==
    [s |-> NoteBlock(RestoreEnvironment(r, previousEnvironment), r.k,
                     previousEnvironment),
     k |-> r.k,
     v |-> IF r.k = "ok" THEN Nil ELSE r.v]

Interpreter_executeBlock(s, statements, environment) ==
    BlockCompletion(ExecuteStatements([s EXCEPT !.environment = environment],
                                      statements, 1),
                    s.environment)

\* for (i < argumentList.length) env.define(this.params[i].lexeme, ...)
DefineParams(s, env, params, argumentList, i) ==
    IF i > Len(argumentList) THEN Ok(s, Undefined)
    ELSE IF i > Len(params)
         THEN Throw(s, "TypeError", "Cannot read properties of undefined")
         ELSE DefineParams(Env_define(s, env, params[i], argumentList[i]),
                           env, params, argumentList, i + 1)

\* what call() returns when the body is done: on a caught ReturnError and
\* when the body fell off its end
FunctionResult(s, f, b) ==
    IF b.k = "ReturnError"
    THEN IF f.isInitializer THEN Env_getAt(b.s, f.closure, 0, "this")
         ELSE Ok(b.s, b.v)
    ELSE IF b.k # "ok" THEN b
    ELSE IF f.isInitializer THEN Env_getAt(b.s, f.closure, 0, "this")
    ELSE Ok(b.s, Nil)

\* new Environment(this.closure) at the start of call(); the call depth and
\* the frame are noted for the duration of the call
EnterCall(s, fn) ==
    NewEnvironment([s EXCEPT !.depth = @ + 1,
                             !.frame = [fn |-> fn, base |-> Len(s.envs)]],
                   s.fns[fn].closure)

\* the try block of call(): d is the completion of binding the parameters
CallBody(d, body, env) ==
    IF d.k # "ok" THEN d ELSE Interpreter_executeBlock(d.s, body, env)

\* back in the caller s with the result res of the call
LeaveCall(res, s) == [res EXCEPT !.s.depth = s.depth, !.s.frame = s.frame]

\* call() in the state s1 that holds the new environment
CallIn(s, s1, fn, argumentList) ==
    LeaveCall(FunctionResult(s, s.fns[fn],
                  CallBody(DefineParams(s1, Len(s1.envs), s.fns[fn].params,
                                        argumentList, 1),
                           s.fns[fn].body, Len(s1.envs))),
              s)

\* a call deeper than MaxCallDepth overflows the stack of the host
LoxFunction_call(s, fn, argumentList) ==
    IF s.depth >= MaxCallDepth
    THEN Throw(s, "RangeError", "Maximum call stack size exceeded")
    ELSE CallIn(s, EnterCall(s, fn), fn, argumentList)

\* new LoxInstance(this)
NewLoxInstance(s, cls) ==
    [s EXCEPT !.insts = Append(@, [klass |-> cls, fields |-> <<>>])]

\* initializer.bindFunc(instance).call(interpreter, argumentList)
CallBound(bound, argumentList) ==
    IF bound.k # "ok" THEN bound
    ELSE LoxFunction_call(bound.s, bound.v.fn, argumentList)

\* LoxClass.call that returns what the initializer returned
InstanceResultOfInit(r, instance) == r

\* return instance, whatever the initializer returned
InstanceResult(r, instance) == IF r.k # "ok" THEN r ELSE Ok(r.s, instance)

\* LoxClass.call once the instance exists (s1) and init is looked up
Construct(s1, initializer, instance, argumentList) ==
    IF initializer.k # "ok" THEN initializer
    ELSE IF initializer.v # 0
    THEN InstanceResult(
             CallBound(LoxFunction_bindFunc(s1, initializer.v, instance),
                       argumentList),
             instance)
    ELSE Ok(s1, instance)

LoxClass_call(s, cls, argumentList) ==
    Construct(NewLoxInstance(s, cls),
              LoxClass_findMethod(NewLoxInstance(s, cls), cls, "init"),
              InstRef(Len(s.insts) + 1), argumentList)

\* the arguments are evaluated left to right; a is the completion of es[i]
NextArgument(a, es, i, acc) ==
    IF a.k # "ok" THEN a
    ELSE EvaluateArguments(a.s, es, i + 1, Append(acc, a.v))

EvaluateArguments(s, es, i, acc) ==
    IF i > Len(es) THEN Ok(s, acc)
    ELSE NextArgument(Interpreter_evaluate(s, es[i]), es, i, acc)

\* callee.airity()
Airity(s, callee) ==
    CASE callee.t = "LoxFunction" -> Ok(s, LoxFunction_airity(s, callee.fn))
      [] callee.t = "LoxClass" -> LoxClass_airity(s, callee.cls)
      [] callee.t = "native" -> Ok(s, 0)

\* history: the completion r of a LoxFunction called by a Call expression
NoteCall(r, fn) ==
    [r EXCEPT !.s.calls = Append(@, [fn |-> fn, k |-> r.k, v |-> r.v])]

\* callee.call(this, args) without the airity check
CallCalleeUnchecked(s, callee, args, airity) ==
    IF airity.k # "ok" THEN airity
    ELSE CASE callee.t = "LoxFunction" ->
                 NoteCall(LoxFunction_call(s, callee.fn, args), callee.fn)
           [] callee.t = "LoxClass" -> LoxClass_call(s, callee.cls, args)
           [] callee.t = "native" -> Ok([s EXCEPT !.now = @ + 1], Num(s.now))

\* the airity check and callee.call(this, args)
CallCallee(s, callee, args, airity) ==
    IF airity.k # "ok" THEN airity
    ELSE IF airity.v # Len(args)
    THEN Throw(s, "RuntimeException", "Incorrect number of arguments")
    ELSE CASE callee.t = "LoxFunction" ->
                 NoteCall(LoxFunction_call(s, callee.fn, args), callee.fn)
           [] callee.t = "LoxClass" -> LoxClass_call(s, callee.cls, args)
           [] callee.t = "native" -> Ok([s EXCEPT !.now = @ + 1], Num(s.now))

\* the tail of visitCall once callee and arguments are evaluated
Interpreter_invoke(s, callee, args) ==
    IF HasMember(callee, {"LoxFunction", "LoxClass", "native"}) = "TypeError"
    THEN Throw(s, "TypeError", "Cannot read properties of null")
    ELSE IF HasMember(callee, {"LoxFunction", "LoxClass", "native"}) = "no"
    THEN Throw(s, "RuntimeException", "Tried to call something that wasn't a function")
    ELSE CallCallee(s, callee, args, Airity(s, callee))

\* visitCall with the callee evaluated (c) and the arguments evaluated (a)
CallWith(c, a) == IF a.k # "ok" THEN a ELSE Interpreter_invoke(a.s, c.v, a.v)

\* visitCall with the callee evaluated (c)
CallOn(c, exp) ==
    IF c.k # "ok" THEN c
    ELSE CallWith(c, EvaluateArguments(c.s, exp.argumentsList, 1, <<>>))

Interpreter_visitCall(s, exp) == CallOn(Interpreter_evaluate(s, exp.callee), exp)

\* what visitAssignement hands back after the store: the function has no
\* return statement
AssignementResult(s, value) == Ok(s, Undefined)

\* assignAt for a resolved node, globals.assign otherwise; v is the
\* completion of the right-hand side
Store(v, exp) ==
    IF LocalsGet(v.s, exp) # -1
    THEN NoteLookup(Env_assignAt(v.s, v.s.environment, LocalsGet(v.s, exp),
                                 exp.name, v.v),
                    v.s, exp, exp.name, LocalsGet(v.s, exp))
    ELSE Env_assign(v.s, GlobalEnv, exp.name, v.v)

\* visitAssignement after the store (completion a)
AssignementDone(a, value) ==
    IF a.k # "ok" THEN a ELSE AssignementResult(a.s, value)

\* history: the assignment of v to the name of exp completed with res
NoteAssign(res, v, exp) ==
    [res EXCEPT !.s.assigns =
         Append(@, [name |-> exp.name, resolved |-> LocalsGet(v.s, exp) # -1,
                    defined |-> exp.name \in DOMAIN v.s.envs[GlobalEnv].data,
                    value |-> v.v, k |-> res.k, v |-> res.v,
                    globalsKept |-> res.s.envs[GlobalEnv].data
                                    = v.s.envs[GlobalEnv].data])]

\* visitAssignement with the right-hand side evaluated (v)
AssignValue(v, exp) ==
    IF v.k # "ok" THEN v
    ELSE NoteAssign(AssignementDone(Store(v, exp), v.v), v, exp)

Interpreter_visitAssignement(s, exp) ==
    AssignValue(Interpreter_evaluate(s, exp.value), exp)

\* visitBinary with both operands evaluated
BinaryLeft(left, right, exp) ==
    IF left.k # "ok" THEN left
    ELSE BinaryOp(left.s, exp.operator, left.v, right.v)

\* visitBinary with the right operand evaluated: the left one comes second
BinaryRight(right, exp) ==
    IF right.k # "ok" THEN right
    ELSE BinaryLeft(Interpreter_evaluate(right.s, exp.left), right, exp)

\* visitBinary that evaluates the left operand first
BinaryRightSecond(left, right, exp) ==
    IF right.k # "ok" THEN right
    ELSE BinaryOp(right.s, exp.operator, left.v, right.v)

BinaryLeftFirst(left, exp) ==
    IF left.k # "ok" THEN left
    ELSE BinaryRightSecond(left, Interpreter_evaluate(left.s, exp.right), exp)

Interpreter_visitBinaryLeftFirst(s, exp) ==
    BinaryLeftFirst(Interpreter_evaluate(s, exp.left), exp)

Interpreter_visitBinary(s, exp) ==
    BinaryRight(Interpreter_evaluate(s, exp.right), exp)

\* the switch of visitUnary, the operand evaluated
UnaryOp(right, operator) ==
    IF right.k # "ok" THEN right
    ELSE CASE operator = "BANG" -> Ok(right.s, Bool(~isTruthy(right.v)))
           [] operator = "MINUS" ->
                IF checkNumber(right.v) THEN Ok(right.s, Num(0 - right.v.n))
                ELSE Throw(right.s, "RuntimeException", "expected number")
           [] OTHER -> Throw(right.s, "Error", "Unexpected operator")

Interpreter_visitUnary(s, exp) ==
    UnaryOp(Interpreter_evaluate(s, exp.value), exp.operator)

\* visitGet with the object evaluated
GetProperty(obj, name) ==
    IF obj.k # "ok" THEN obj
    ELSE IF HasMember(obj.v, {"LoxInstance"}) = "TypeError"
    THEN Throw(obj.s, "TypeError", "Cannot read properties of null")
    ELSE IF HasMember(obj.v, {"LoxInstance"}) = "yes"
    THEN LoxInstance_get(obj.s, obj.v.inst, name)
    ELSE Throw(obj.s, "RuntimeException", "Only instances have properties")

Interpreter_visitGet(s, expr) ==
    GetProperty(Interpreter_evaluate(s, expr.object), expr.name)

\* visitSet with object and value evaluated
SetValue(value, obj, name) ==
    IF value.k # "ok" THEN value
    ELSE Ok(LoxInstance_set(value.s, obj.v.inst, name, value.v), value.v)

\* visitSet with the object evaluated: the value comes second
SetProperty(obj, expr) ==
    IF obj.k # "ok" THEN obj
    ELSE IF HasMember(obj.v, {"LoxInstance"}) = "TypeError"
    THEN Throw(obj.s, "TypeError", "Cannot read properties of null")
    ELSE IF HasMember(obj.v, {"LoxInstance"}) = "no"
    THEN Throw(obj.s, "RuntimeException", "Only instances have fields")
    ELSE SetValue(Interpreter_evaluate(obj.s, expr.value), obj, expr.name)

Interpreter_visitSet(s, expr) ==
    SetProperty(Interpreter_evaluate(s, expr.object), expr)

\* locals.get(expr) of an unresolved node is undefined: ancestor(undefined)
\* and ancestor(NaN) do not move
SuperDistance(s, expr) == IF LocalsGet(s, expr) = -1 THEN 0 ELSE LocalsGet(s, expr)

\* environment.getAt(distance - 1, "this")
SuperObject(s, expr) ==
    IF LocalsGet(s, expr) = -1 THEN Env_getAt(s, s.environment, 0, "this")
    ELSE IF SuperDistance(s, expr) - 1 < 0 THEN Env_get(s, s.environment, "this")
    ELSE Env_getAt(s, s.environment, SuperDistance(s, expr) - 1, "this")

\* visitSuper with superclass, object and method looked up
SuperMethod(s, object, method) ==
    IF method.k # "ok" THEN method
    ELSE IF method.v = 0
    THEN Throw(s, "RuntimeException", "Undefined property on super")
    ELSE LoxFunction_bindFunc(s, method.v, object.v)

\* visitSuper that starts the lookup at the superclass of the class of `this`
SuperLookupDynamic(s, superclass, object, expr) ==
    IF superclass.k # "ok" THEN superclass
    ELSE IF object.k # "ok" THEN object
    ELSE SuperMethod(s, object,
             LoxClass_findMethod(s,
                 s.classes[s.insts[object.v.inst].klass].superClass.cls,
                 expr.method))

\* visitSuper with superclass and object looked up
SuperLookup(s, superclass, object, expr) ==
    IF superclass.k # "ok" THEN superclass
    ELSE IF object.k # "ok" THEN object
    ELSE IF HasMember(superclass.v, {"LoxClass"}) # "yes"
    THEN Throw(s, "TypeError", "findMethod is not a function")
    ELSE SuperMethod(s, object,
                     LoxClass_findMethod(s, superclass.v.cls, expr.method))

\* history: the super expression evaluated in function s.frame.fn completed
\* with r
NoteSuper(r, s, expr) ==
    [r EXCEPT !.s.supers = Append(@, [node |-> expr.id, method |-> expr.method,
                                      fn |-> s.frame.fn, k |-> r.k, v |-> r.v])]

\* history: the two getAt calls of visitSuper
NoteSuperLookups(r, s, expr) ==
    IF LocalsGet(s, expr) = -1 THEN r
    ELSE NoteLookup(NoteLookup(r, s, expr, "super", LocalsGet(s, expr)),
                    s, expr, "this",
                    IF LocalsGet(s, expr) = 0 THEN 0 ELSE LocalsGet(s, expr) - 1)

Interpreter_visitSuper(s, expr) ==
    NoteSuper(NoteSuperLookups(
                  SuperLookup(s, Env_getAt(s, s.environment, SuperDistance(s, expr),
                                           "super"),
                              SuperObject(s, expr), expr),
                  s, expr),
              s, expr)

\* evaluate(expression): visitExpression dispatch on the node type
Interpreter_evaluate(s, e) ==
    CASE e.type = "Literal" -> Ok(s, e.literal)
      [] e.type = "Grouping" -> Interpreter_evaluate(s, e.expression)
      [] e.type = "Variable" -> Interpreter_lookupVariable(s, e.name, e)
      [] e.type = "This" -> Interpreter_lookupVariable(s, "this", e)
      [] e.type = "Assignement" -> Interpreter_visitAssignement(s, e)
      [] e.type = "Binary" -> Interpreter_visitBinary(s, e)
      [] e.type = "Unary" -> Interpreter_visitUnary(s, e)
      [] e.type = "Call" -> Interpreter_visitCall(s, e)
      [] e.type = "Get" -> Interpreter_visitGet(s, e)
      [] e.type = "Set" -> Interpreter_visitSet(s, e)
      [] e.type = "Super" -> Interpreter_visitSuper(s, e)

\* new LoxFunction(method, this.environment, method.name.lexeme === "init")
MethodFunction(s, method) ==
    NoteVisible(NewLoxFunction(s, method.name, method.params, method.body,
                               s.environment, method.name = "init"))

\* the loop of visitClassStatement building the methods map; acc maps a
\* method name to its LoxFunction
BuildMethods(s, methods, i, acc) ==
    IF i > Len(methods) THEN [s |-> s, methods |-> acc]
    ELSE BuildMethods(MethodFunction(s, methods[i]), methods, i + 1,
                      (methods[i].name :> (Len(s.fns) + 1)) @@ acc)

\* the environment that defines "super", entered when there is a superclass
SuperEnvironment(n, superClass) ==
    Env_define([n EXCEPT !.environment = Len(n.envs)], Len(n.envs), "super",
               superClass)

\* this.environment = this.environment.enclosing, when there is a superclass
LeaveSuperEnvironment(s, hasSuper) ==
    IF hasSuper THEN [s EXCEPT !.environment = s.envs[s.environment].enclosing]
    ELSE s

\* new LoxClass(name, methods, superClass), assigned to the class name
AssignClass(m, statement, superClass) ==
    Env_assign(LeaveSuperEnvironment(
                   [m.s EXCEPT !.classes =
                        Append(@, [name |-> statement.name, methods |-> m.methods,
                                   superClass |-> superClass])],
                   statement.superClass # NoExpr),
               IF statement.superClass # NoExpr
               THEN m.s.envs[m.s.environment].enclosing ELSE m.s.environment,
               statement.name, ClassRef(Len(m.s.classes) + 1))

\* visitClassStatement with the name defined (state s1)
ClassBody(s1, statement, superClass) ==
    AssignClass(BuildMethods(IF statement.superClass # NoExpr
                             THEN SuperEnvironment(
                                      NewEnvironment(s1, s1.environment),
                                      superClass)
                             ELSE s1,
                             statement.methods, 1, <<>>),
                statement, superClass)

\* visitClassStatement with the superclass expression evaluated (sc)
DefineClass(sc, statement) ==
    IF sc.k # "ok" THEN sc
    ELSE ClassBody(Env_define(sc.s, sc.s.environment, statement.name, Nil),
                   statement, sc.v)

Interpreter_visitClassStatement(s, statement) ==
    DefineClass(IF statement.superClass # NoExpr
                THEN Interpreter_evaluate(s, statement.superClass)
                ELSE Ok(s, Nil),
                statement)

\* environment.define(name, new LoxFunction(statement, this.environment))
DefineFunction(s1, name) ==
    Env_define(s1, s1.environment, name, FnRef(Len(s1.fns)))

\* visitFuncStatement that gives the function a copy of the environment
Interpreter_visitFuncStatementCopying(s, statement) ==
    Ok(NoteVisible(DefineFunction(
           NewLoxFunction([s EXCEPT !.envs = Append(@, s.envs[s.environment])],
                          statement.name, statement.params, statement.body,
                          Len(s.envs) + 1, FALSE),
           statement.name)),
       Undefined)

Interpreter_visitFuncStatement(s, statement) ==
    Ok(NoteVisible(DefineFunction(
           NewLoxFunction(s, statement.name, statement.params, statement.body,
                          s.environment, FALSE),
           statement.name)),
       Undefined)

\* throw new ReturnError(value)
ReturnValue(value) ==
    IF value.k # "ok" THEN value
    ELSE [s |-> value.s, k |-> "ReturnError", v |-> value.v]

Interpreter_visitRetStatement(s, statement) ==
    ReturnValue(IF statement.value # NoExpr
                THEN Interpreter_evaluate(s, statement.value) ELSE Ok(s, Nil))

\* console.log(text)
PrintText(s, text) ==
    IF text.k # "ok" THEN text
    ELSE Ok([s EXCEPT !.out = Append(@, <<text.v>>)], Undefined)

\* console.log(stringify(value))
PrintValue(value) ==
    IF value.k # "ok" THEN value
    ELSE PrintText(value.s, stringify(value.s, value.v))

Interpreter_visitPrintStatement(s, stmt) ==
    PrintValue(Interpreter_evaluate(s, stmt.exp))

\* the completion of a statement whose visitor returns nothing
ExpressionDone(v) == IF v.k # "ok" THEN v ELSE Ok(v.s, Undefined)

Interpreter_visitExpressionStatement(s, stmt) ==
    ExpressionDone(Interpreter_evaluate(s, stmt.exp))

\* environment.define(name, value)
DefineVariable(value, name) ==
    IF value.k # "ok" THEN value
    ELSE Ok(Env_define(value.s, value.s.environment, name, value.v), Undefined)

Interpreter_visitVariableDeclarationStatement(s, stmt) ==
    DefineVariable(IF stmt.initializer # NoExpr
                   THEN Interpreter_evaluate(s, stmt.initializer) ELSE Ok(s, Nil),
                   stmt.name)

\* executeBlock(statements, new Environment(this.environment)); s1 holds
\* the new environment
BlockIn(s1, statement) ==
    Interpreter_executeBlock(s1, statement.statements, Len(s1.envs))

Interpreter_visitBlockStatement(s, statement) ==
    BlockIn(NewEnvironment(s, s.environment), statement)

\* visitIfStatement with the condition evaluated (c)
IfBranch(c, statement) ==
    IF c.k # "ok" THEN c
    ELSE IF isTruthy(c.v) THEN Interpreter_execute(c.s, statement.thenBranch)
    ELSE IF statement.elseBranch # NoStmt
         THEN Interpreter_execute(c.s, statement.elseBranch)
    ELSE Ok(c.s, Undefined)

Interpreter_visitIfStatement(s, statement) ==
    IfBranch(Interpreter_evaluate(s, statement.condition), statement)

\* the loop of visitWhileStatement after its body ran (completion b)
WhileAgain(b, statement, n) ==
    IF b.k # "ok" THEN b ELSE Interpreter_whileLoop(b.s, statement, n + 1)

\* the loop of visitWhileStatement with the condition evaluated (c).  A
\* loop that is still running after MaxLoop iterations is not followed
\* further ("LoopBound").
WhileBody(c, statement, n) ==
    IF c.k # "ok" THEN c
    ELSE IF ~isTruthy(c.v) THEN Ok(c.s, Undefined)
    ELSE IF n >= MaxLoop THEN Throw(c.s, "LoopBound", "")
    ELSE WhileAgain(Interpreter_execute(c.s, statement.body), statement, n)

\* visitWhileStatement; n counts the iterations done
Interpreter_whileLoop(s, statement, n) ==
    WhileBody(Interpreter_evaluate(s, statement.condition), statement, n)

\* execute(statement): visitStatement dispatch on the node type
Interpreter_execute(s, st) ==
    CASE st.type = "Print" -> Interpreter_visitPrintStatement(s, st)
      [] st.type = "Expression" -> Interpreter_visitExpressionStatement(s, st)
      [] st.type = "VariableDeclaration" ->
            Interpreter_visitVariableDeclarationStatement(s, st)
      [] st.type = "Block" -> Interpreter_visitBlockStatement(s, st)
      [] st.type = "If" -> Interpreter_visitIfStatement(s, st)
      [] st.type = "While" -> Interpreter_whileLoop(s, st, 0)
      [] st.type = "Func" -> Interpreter_visitFuncStatement(s, st)
      [] st.type = "Ret" -> Interpreter_visitRetStatement(s, st)
      [] st.type = "Class" -> Interpreter_visitClassStatement(s, st)

\* the loop over the statements after statement i (completion r)
NextStatement(r, statements, i) ==
    IF r.k # "ok" THEN r ELSE ExecuteStatements(r.s, statements, i + 1)

\* for (const statement of statements) this.execute(statement)
ExecuteStatements(s, statements, i) ==
    IF i > Len(statements) THEN Ok(s, Undefined)
    ELSE NextStatement(Interpreter_execute(s, statements[i]), statements, i)

Interpreter_interpret(s, statements) == ExecuteStatements(s, statements, 1)

NewInterpreter(now) ==
    [envs |-> <<[data |-> ("clock" :> Clock), enclosing |-> 0]>>,
     fns |-> <<>>, classes |-> <<>>, insts |-> <<>>,
     environment |-> GlobalEnv, locals |-> <<>>, out |-> <<>>,
     depth |-> 0, now |-> now,
     blocks |-> <<>>, assigns |-> <<>>, reads |-> <<>>, calls |-> <<>>,
     frame |-> [fn |-> 0, base |-> 0], visible |-> <<>>, atThrow |-> <<>>,
     supers |-> <<>>, lookups |-> <<>>]

\* the history of one input starts empty
ClearHistory(s) ==
    [s EXCEPT !.blocks = <<>>, !.assigns = <<>>, !.reads = <<>>, !.calls = <<>>,
              !.atThrow = <<>>, !.supers = <<>>, !.lookups = <<>>]

(***************************************************************************)
(* lexer.ts.  The content is a sequence of characters, each a string of    *)
(* length one; positions count from 0 as in the source.  t is the          *)
(* Tokenizer object (content, currentPosition, tokenStart, line).  A token *)
(* is the record the source builds (tokenType, lexeme, line, literal); its *)
(* field `start` is history - tokenStart when the token was created - and  *)
(* serves as the identity of the token object.                             *)
(***************************************************************************)
\* the members of enum TokenType
TokenType ==
    {"LEFT_PAREN", "RIGHT_PAREN", "LEFT_BRACE", "RIGHT_BRACE", "COMMA", "DOT",
     "MINUS", "PLUS", "SEMICOLON", "SLASH", "STAR",
     "BANG", "BANG_EQUAL", "EQUAL", "EQUAL_EQUAL", "GREATER", "GREATER_EQUAL",
     "LESS", "LESS_EQUAL",
     "IDENTIFIER", "STRING", "NUMBER",
     "AND", "CLASS", "ELSE", "FALSE", "FUN", "FOR", "IF", "NIL", "OR", "PRINT",
     "RETURN", "SUPER", "THIS", "TRUE", "VAR", "WHILE",
     "EOF"}

\* const KEYWORDS: any = { and: TokenType.AND, ... }
KEYWORDS ==
    [and |-> "AND", class |-> "CLASS", else |-> "ELSE", false |-> "FALSE",
     for |-> "FOR", fun |-> "FUN", if |-> "IF", nil |-> "NIL", or |-> "OR",
     print |-> "PRINT", return |-> "RETURN", super |-> "SUPER", this |-> "THIS",
     true |-> "TRUE", var |-> "VAR", while |-> "WHILE"]

\* the properties an object literal inherits from Object.prototype
ObjectPrototype ==
    {"constructor", "hasOwnProperty", "isPrototypeOf", "propertyIsEnumerable",
     "toLocaleString", "toString", "valueOf", "__proto__",
     "__defineGetter__", "__defineSetter__", "__lookupGetter__",
     "__lookupSetter__"}

\* KEYWORDS[value] || TokenType.IDENTIFIER: an own property is the keyword
\* kind (none of them is 0), an inherited one is a function - an object for
\* __proto__ -, truthy as well; anything else is undefined
KeywordOrIdentifier(value) ==
    IF value \in DOMAIN KEYWORDS THEN KEYWORDS[value]
    ELSE IF value \in ObjectPrototype THEN "Object.prototype." \o value
    ELSE "IDENTIFIER"

Digits == {"0", "1", "2", "3", "4", "5", "6", "7", "8", "9"}

Letters ==
    {"a", "b", "c", "d", "e", "f", "g", "h", "i", "j", "k", "l", "m",
      "n", "o", "p", "q", "r", "s", "t", "u", "v", "w", "x", "y", "z"}
        \cup
    {"A", "B", "C", "D", "E", "F", "G", "H", "I", "J", "K", "L", "M",
      "N", "O", "P", "Q", "R", "S", "T", "U", "V", "W", "X", "Y", "Z"}

\* isDigit(x): !isNaN(parseInt(x)), of one character or of undefined
isDigit(x) == x \in Digits

\* isAlpha(x): x.match(/^[a-zA-Z_]+$/)
isAlpha(x) == x \in Letters \cup {"_"}

isAlphaNumeric(x) == isDigit(x) \/ isAlpha(x)

\* content.slice(from, to) as one string
RECURSIVE Slice(_, _, _)
Slice(content, from, to) ==
    IF from >= to \/ from >= Len(content) THEN ""
    ELSE content[from + 1] \o Slice(content, from + 1, to)

\* parseFloat of the digits content[from..to-1]; acc is the value so far
RECURSIVE DigitsValue(_, _, _, _)
DigitsValue(content, from, to, acc) ==
    IF from >= to THEN acc
    ELSE DigitsValue(content, from + 1, to,
                     10 * acc + (CHOOSE d \in 0..9 : ToString(d) = content[from + 1]))

\* the position of the "." of the number content[from..to-1], `to` if none
RECURSIVE PointOf(_, _, _)
PointOf(content, from, to) ==
    IF from >= to \/ content[from + 1] = "." THEN from
    ELSE PointOf(content, from + 1, to)

\* parseFloat(content.slice(from, to)): the number, with the digits after
\* the point kept as they are written
parseFloat(content, from, to) ==
    IF PointOf(content, from, to) = to
    THEN [t |-> "number", n |-> DigitsValue(content, from, to, 0)]
    ELSE [t |-> "number",
          n |-> DigitsValue(content, from, PointOf(content, from, to), 0),
          fraction |-> Slice(content, PointOf(content, from, to) + 1, to)]

NewTokenizer(content) ==
    [content |-> content, currentPosition |-> 0, tokenStart |-> 0, line |-> 1]

Tokenizer_isAtEnd(t) == t.currentPosition >= Len(t.content)

\* content[currentPosition]; "undefined" past the end
Tokenizer_peek(t) ==
    IF t.currentPosition < Len(t.content) THEN t.content[t.currentPosition + 1]
    ELSE "undefined"

\* "NUL" stands for "\0"
Tokenizer_peekNext(t) ==
    IF t.currentPosition + 1 >= Len(t.content) THEN "NUL"
    ELSE t.content[t.currentPosition + 2]

\* the tokenizer after advance(); the character it returns is peek before
Tokenizer_advance(t) ==
    [t EXCEPT !.currentPosition = @ + 1,
              !.line = IF Tokenizer_peek(t) = "\n" THEN @ + 1 ELSE @]

\* whether match(expected) returns true; the tokenizer has then advanced
Tokenizer_match(t, expected) ==
    ~Tokenizer_isAtEnd(t) /\ Tokenizer_peek(t) = expected

\* the result of a scanning step: the tokenizer afterwards, the token (NoToken for
\* null) and the message of the Error thrown ("" for none)
NoToken == [tokenType |-> "null"]
Scanned(t, token) == [t |-> t, token |-> token, err |-> ""]
ScanError(t, message) == [t |-> t, token |-> NoToken, err |-> message]

Tokenizer_createToken(t, tokenType, literal) ==
    [tokenType |-> tokenType,
     lexeme |-> Slice(t.content, t.tokenStart, t.currentPosition),
     line |-> t.line,
     literal |-> literal,
     start |-> t.tokenStart]

\* createToken(match("=") ? matched : single)
Tokenizer_oneOrTwo(t, single, matched) ==
    IF Tokenizer_match(t, "=")
    THEN Scanned(Tokenizer_advance(t),
                 Tokenizer_createToken(Tokenizer_advance(t), matched, Undefined))
    ELSE Scanned(t, Tokenizer_createToken(t, single, Undefined))

\* while (!isAtEnd() && peek() != stop) advance()
RECURSIVE Tokenizer_advanceUntil(_, _)
Tokenizer_advanceUntil(t, stop) ==
    IF ~Tokenizer_isAtEnd(t) /\ Tokenizer_peek(t) # stop
    THEN Tokenizer_advanceUntil(Tokenizer_advance(t), stop)
    ELSE t

\* string() once the loop has stopped at t
Tokenizer_closeString(t) ==
    IF Tokenizer_isAtEnd(t) THEN ScanError(t, "Unterminated string.")
    ELSE Scanned(Tokenizer_advance(t),
                 Tokenizer_createToken(
                     Tokenizer_advance(t), "STRING",
                     Str(Slice(t.content, t.tokenStart + 1, t.currentPosition))))

Tokenizer_string(t) == Tokenizer_closeString(Tokenizer_advanceUntil(t, "\""))

\* while (isDigit(peek())) advance()
RECURSIVE Tokenizer_advanceDigits(_)
Tokenizer_advanceDigits(t) ==
    IF isDigit(Tokenizer_peek(t)) THEN Tokenizer_advanceDigits(Tokenizer_advance(t))
    ELSE t

\* number() after the digits before the point: the fractional part
Tokenizer_fraction(t) ==
    IF Tokenizer_peek(t) = "." /\ isDigit(Tokenizer_peekNext(t))
    THEN Tokenizer_advanceDigits(Tokenizer_advance(t))
    ELSE t

\* number() once the lexeme is consumed
Tokenizer_numberToken(t) ==
    Scanned(t, Tokenizer_createToken(
                   t, "NUMBER", parseFloat(t.content, t.tokenStart, t.currentPosition)))

Tokenizer_number(t) ==
    Tokenizer_numberToken(Tokenizer_fraction(Tokenizer_advanceDigits(t)))

\* while (!isAtEnd() && isAlphaNumeric(peek())) advance()
RECURSIVE Tokenizer_advanceAlphaNumeric(_)
Tokenizer_advanceAlphaNumeric(t) ==
    IF ~Tokenizer_isAtEnd(t) /\ isAlphaNumeric(Tokenizer_peek(t))
    THEN Tokenizer_advanceAlphaNumeric(Tokenizer_advance(t))
    ELSE t

\* identifier() once the lexeme is consumed
Tokenizer_keywordToken(t) ==
    Scanned(t, Tokenizer_createToken(
                   t,
                   KeywordOrIdentifier(Slice(t.content, t.tokenStart, t.currentPosition)),
                   Undefined))

Tokenizer_identifier(t) == Tokenizer_keywordToken(Tokenizer_advanceAlphaNumeric(t))

\* the tokens of one character
SingleCharacter ==
    [c \in {"(", ")", "{", "}", ",", ".", "-", "+", ";", "*"} |->
        CASE c = "(" -> "LEFT_PAREN" [] c = ")" -> "RIGHT_PAREN"
          [] c = "{" -> "LEFT_BRACE" [] c = "}" -> "RIGHT_BRACE"
          [] c = "," -> "COMMA" [] c = "." -> "DOT" [] c = "-" -> "MINUS"
          [] c = "+" -> "PLUS" [] c = ";" -> "SEMICOLON" [] c = "*" -> "STAR"]

\* scanToken() after c = advance(): t has advanced past c
Tokenizer_scanCharacter(t, c) ==
    CASE c \in DOMAIN SingleCharacter ->
            Scanned(t, Tokenizer_createToken(t, SingleCharacter[c], Undefined))
      [] c = "!" -> Tokenizer_oneOrTwo(t, "BANG", "BANG_EQUAL")
      [] c = "=" -> Tokenizer_oneOrTwo(t, "EQUAL", "EQUAL_EQUAL")
      [] c = "<" -> Tokenizer_oneOrTwo(t, "LESS", "LESS_EQUAL")
      [] c = ">" -> Tokenizer_oneOrTwo(t, "GREATER", "GREATER_EQUAL")
      [] c = "/" ->
            IF Tokenizer_match(t, "/")
            THEN Scanned(Tokenizer_advanceUntil(Tokenizer_advance(t), "\n"), NoToken)
            ELSE Scanned(t, Tokenizer_createToken(t, "SLASH", Undefined))
      [] c \in {" ", "\r", "\t", "\n"} -> Scanned(t, NoToken)
      [] c = "\"" -> Tokenizer_string(t)
      [] OTHER ->
            IF isDigit(c) THEN Tokenizer_number(t)
            ELSE IF isAlpha(c) THEN Tokenizer_identifier(t)
            ELSE ScanError(t, "Unknown token type: " \o c)

Tokenizer_scanToken(t) == Tokenizer_scanCharacter(Tokenizer_advance(t), Tokenizer_peek(t))

\* the result of scan(): the tokens, or the Error thrown with the tokenizer
\* as it was then
RECURSIVE Tokenizer_scan(_, _)

\* the loop of scan() after scanToken() gave r: push, tokenStart = currentPosition
Tokenizer_push(r, tokens) ==
    IF r.err # "" THEN [k |-> "Error", v |-> r.err, t |-> r.t]
    ELSE Tokenizer_scan([r.t EXCEPT !.tokenStart = r.t.currentPosition],
                        IF r.token = NoToken THEN tokens ELSE Append(tokens, r.token))

Tokenizer_scan(t, tokens) ==
    IF ~Tokenizer_isAtEnd(t) THEN Tokenizer_push(Tokenizer_scanToken(t), tokens)
    ELSE [k |-> "ok", v |-> Append(tokens, Tokenizer_createToken(t, "EOF", Undefined)),
          t |-> t]

tokenize(input) == Tokenizer_scan(NewTokenizer(input), <<>>)

(***************************************************************************)
(* parser.ts.  p is the Parser object (tokens, current) and, as the        *)
(* identity of the nodes it builds, the number k of the parse call: a node *)
(* that the interpreter keys by identity takes <<k, start>> of its token.  *)
(* A result is the parser afterwards, "ok" with the node built or "Error"  *)
(* with the message.  Names and operators are kept as the lexeme and the   *)
(* kind of their token; null and undefined children are NoExpr and NoStmt. *)
(* TokenType has no SLASH_DASH, so that the first test of declaration()    *)
(* compares with undefined and never matches.                              *)
(***************************************************************************)
NewParser(tokens, k) == [tokens |-> tokens, current |-> 0, k |-> k]

Parsed(p, node) == [p |-> p, k |-> "ok", v |-> node]
ParseError(p, message) == [p |-> p, k |-> "Error", v |-> message]

Parser_peek(p) == p.tokens[p.current + 1]

Parser_previous(p) == p.tokens[p.current]

Parser_isAtEnd(p) == Parser_peek(p).tokenType = "EOF"

Parser_check(p, type) == ~Parser_isAtEnd(p) /\ Parser_peek(p).tokenType = type

Parser_advance(p) ==
    IF ~Parser_isAtEnd(p) THEN [p EXCEPT !.current = @ + 1] ELSE p

\* whether match(types) returns true; the parser has then advanced
Parser_match(p, types) == \E type \in types : Parser_check(p, type)

\* consume(type, message): the token consumed
Parser_consume(p, type, message) ==
    IF Parser_check(p, type) THEN Parsed(Parser_advance(p), Parser_peek(p))
    ELSE ParseError(p, message)

\* the node, once the token c was consumed
Parser_built(c, node) == IF c.k # "ok" THEN c ELSE Parsed(c.p, node)

\* the identity of the node built from that token
NodeOf(p, token) == <<p.k, token.start>>

RECURSIVE Parser_expression(_)
RECURSIVE Parser_assignement(_)
RECURSIVE Parser_operand(_, _)
RECURSIVE Parser_leftAssociative(_, _)
RECURSIVE Parser_unary(_)
RECURSIVE Parser_call(_)
RECURSIVE Parser_callLoop(_)
RECURSIVE Parser_arguments(_, _)
RECURSIVE Parser_declaration(_)
RECURSIVE Parser_statement(_)
RECURSIVE Parser_statements(_, _, _)
RECURSIVE Parser_func(_, _)
RECURSIVE Parser_methods(_, _)

\* primary() after `(`: the expression e, then `)`
Parser_grouping(e) ==
    IF e.k # "ok" THEN e
    ELSE Parser_built(Parser_consume(e.p, "RIGHT_PAREN",
                                     "Expect ')' after expression."),
                      Grouping(e.v))

\* primary() after `super` and the `.` consumed as dot
Parser_superMethod(dot, keyword) ==
    IF dot.k # "ok" THEN dot
    ELSE Parser_built(Parser_consume(dot.p, "IDENTIFIER",
                                     "Expect superclass method name."),
                      Super(NodeOf(dot.p, keyword), Parser_peek(dot.p).lexeme))

\* the last statements of primary() write the token to the console and throw
Parser_primary(p) ==
    CASE Parser_check(p, "FALSE") -> Parsed(Parser_advance(p), Literal(Bool(FALSE)))
      [] Parser_check(p, "TRUE") -> Parsed(Parser_advance(p), Literal(Bool(TRUE)))
      [] Parser_check(p, "NIL") -> Parsed(Parser_advance(p), Literal(Nil))
      [] Parser_check(p, "THIS") ->
            Parsed(Parser_advance(p), This(NodeOf(p, Parser_peek(p))))
      [] Parser_match(p, {"NUMBER", "STRING"}) ->
            Parsed(Parser_advance(p), Literal(Parser_peek(p).literal))
      [] Parser_check(p, "LEFT_PAREN") ->
            Parser_grouping(Parser_expression(Parser_advance(p)))
      [] Parser_check(p, "IDENTIFIER") ->
            Parsed(Parser_advance(p),
                   Variable(NodeOf(p, Parser_peek(p)), Parser_peek(p).lexeme))
      [] Parser_check(p, "SUPER") ->
            Parser_superMethod(
                Parser_consume(Parser_advance(p), "DOT", "Expect '.' after 'super'."),
                Parser_peek(p))
      [] OTHER -> ParseError(p, "Something went wrong")

\* finishCall() with the arguments parsed
Parser_closeCall(args, callee) ==
    IF args.k # "ok" THEN args
    ELSE Parser_built(Parser_consume(args.p, "RIGHT_PAREN",
                                     "Expected ')' after arguments."),
                      Call(callee, args.v))

\* the do-while of finishCall() after the argument a
Parser_nextArgument(a, acc) ==
    IF a.k # "ok" THEN a
    ELSE IF Parser_check(a.p, "COMMA")
    THEN Parser_arguments(Parser_advance(a.p), Append(acc, a.v))
    ELSE Parsed(a.p, Append(acc, a.v))

Parser_arguments(p, acc) ==
    IF Len(acc) >= 255 THEN ParseError(p, "too many arguments")
    ELSE Parser_nextArgument(Parser_expression(p), acc)

Parser_finishCall(p, callee) ==
    Parser_closeCall(IF Parser_check(p, "RIGHT_PAREN") THEN Parsed(p, <<>>)
                     ELSE Parser_arguments(p, <<>>),
                     callee)

\* the loop of call() after `.`: the property name consumed as name
Parser_get(name, object) ==
    IF name.k # "ok" THEN name ELSE Parsed(name.p, GetExpr(object, name.v.lexeme))

Parser_callLoop(e) ==
    IF e.k # "ok" THEN e
    ELSE IF Parser_check(e.p, "LEFT_PAREN")
    THEN Parser_callLoop(Parser_finishCall(Parser_advance(e.p), e.v))
    ELSE IF Parser_check(e.p, "DOT")
    THEN Parser_callLoop(
             Parser_get(Parser_consume(Parser_advance(e.p), "IDENTIFIER",
                                       "Expect property name after '.'."),
                        e.v))
    ELSE e

Parser_call(p) == Parser_callLoop(Parser_primary(p))

\* unary() with the operand parsed
Parser_unaryOf(operator, right) ==
    IF right.k # "ok" THEN right
    ELSE Parsed(right.p, Unary(operator.tokenType, right.v))

Parser_unary(p) ==
    IF Parser_match(p, {"BANG", "MINUS"})
    THEN Parser_unaryOf(Parser_peek(p), Parser_unary(Parser_advance(p)))
    ELSE Parser_call(p)

\* the operators that equality(), comparison(), term() and factor() match
OperatorsOf(level) ==
    CASE level = "equality" -> {"BANG_EQUAL", "EQUAL_EQUAL"}
      [] level = "comparison" -> {"GREATER", "GREATER_EQUAL", "LESS", "LESS_EQUAL"}
      [] level = "term" -> {"MINUS", "PLUS"}
      [] level = "factor" -> {"STAR", "SLASH"}

Parser_factor(p) == Parser_leftAssociative(Parser_unary(p), "factor")

Parser_term(p) == Parser_leftAssociative(Parser_factor(p), "term")

Parser_comparison(p) == Parser_leftAssociative(Parser_term(p), "comparison")

Parser_equality(p) == Parser_leftAssociative(Parser_comparison(p), "equality")

\* the operand of the operators of a level: the next level down
Parser_operand(p, level) ==
    CASE level = "equality" -> Parser_comparison(p)
      [] level = "comparison" -> Parser_term(p)
      [] level = "term" -> Parser_factor(p)
      [] level = "factor" -> Parser_unary(p)

\* expr = buildBinaryExpression(expr, operator, right), and the loop again
Parser_binaryOf(left, operator, right, level) ==
    IF right.k # "ok" THEN right
    ELSE Parser_leftAssociative(
             Parsed(right.p, Binary(left.v, operator.tokenType, right.v)), level)

\* the while loop of equality(), comparison(), term() and factor() with the
\* expression so far
Parser_leftAssociative(left, level) ==
    IF left.k # "ok" THEN left
    ELSE IF Parser_match(left.p, OperatorsOf(level))
    THEN Parser_binaryOf(left, Parser_peek(left.p),
                         Parser_operand(Parser_advance(left.p), level), level)
    ELSE left

\* assignement() after `=` with the value parsed: a target that is neither
\* a Variable nor a Get falls out of the if, to `return expr`
Parser_assign(expr, value) ==
    IF value.k # "ok" THEN value
    ELSE IF expr.v.type = "Variable"
    THEN Parsed(value.p, Assignement(expr.v.id, expr.v.name, value.v))
    ELSE IF expr.v.type = "Get"
    THEN Parsed(value.p, SetExpr(expr.v.object, expr.v.name, value.v))
    ELSE Parsed(value.p, expr.v)

\* assignement() with the left side parsed
Parser_assignTo(expr) ==
    IF expr.k # "ok" THEN expr
    ELSE IF Parser_check(expr.p, "EQUAL")
    THEN Parser_assign(expr, Parser_assignement(Parser_advance(expr.p)))
    ELSE expr

Parser_assignement(p) == Parser_assignTo(Parser_equality(p))

Parser_expression(p) == Parser_assignement(p)

\* the statement built from the expression e once `;` follows
Parser_terminated(e, message, node) ==
    IF e.k # "ok" THEN e
    ELSE Parser_built(Parser_consume(e.p, "SEMICOLON", message), node)

\* buildExpressionStatement(value)
ExpressionStatementOf(e) == IF e.k = "ok" THEN ExpressionStatement(e.v) ELSE NoStmt

\* buildPrintStatement(value)
PrintStatementOf(e) == IF e.k = "ok" THEN PrintStatement(e.v) ELSE NoStmt

\* buildRetStatement(keyword, value)
RetStatementOf(e) == IF e.k = "ok" THEN RetStatement(e.v) ELSE NoStmt

Parser_expressionStatementOf(e) ==
    Parser_terminated(e, "Expected ';' at end of expression statement",
                      ExpressionStatementOf(e))

Parser_expressionStatement(p) == Parser_expressionStatementOf(Parser_expression(p))

Parser_printStatementOf(e) ==
    Parser_terminated(e, "Expected ';' at end of print statement", PrintStatementOf(e))

Parser_printStatement(p) == Parser_printStatementOf(Parser_expression(p))

Parser_returnStatementOf(e) ==
    Parser_terminated(e, "Expect ';' after return value.", RetStatementOf(e))

Parser_returnStatement(p) ==
    Parser_returnStatementOf(IF ~Parser_check(p, "SEMICOLON") THEN Parser_expression(p)
                             ELSE Parsed(p, NoExpr))

\* a statement after `(`: the condition and the `)`
Parser_closeCondition(e, message) ==
    IF e.k # "ok" THEN e
    ELSE Parser_built(Parser_consume(e.p, "RIGHT_PAREN", message), e.v)

Parser_condition(open, message) ==
    IF open.k # "ok" THEN open
    ELSE Parser_closeCondition(Parser_expression(open.p), message)

\* whileStatement() with the body parsed
Parser_whileOf(condition, body) ==
    IF body.k # "ok" THEN body
    ELSE Parsed(body.p, WhileStatement(condition.v, body.v))

Parser_whileBody(condition) ==
    IF condition.k # "ok" THEN condition
    ELSE Parser_whileOf(condition, Parser_statement(condition.p))

Parser_whileStatement(p) ==
    Parser_whileBody(
        Parser_condition(Parser_consume(p, "LEFT_PAREN", "Expected '(' after while."),
                         "Expected ')' after condition."))

\* ifStatement() with the else branch parsed
Parser_ifOf(condition, thenBranch, elseBranch) ==
    IF elseBranch.k # "ok" THEN elseBranch
    ELSE Parsed(elseBranch.p, IfStatement(condition.v, thenBranch.v, elseBranch.v))

Parser_elseBranch(condition, thenBranch) ==
    IF thenBranch.k # "ok" THEN thenBranch
    ELSE Parser_ifOf(condition, thenBranch,
                     IF Parser_check(thenBranch.p, "ELSE")
                     THEN Parser_statement(Parser_advance(thenBranch.p))
                     ELSE Parsed(thenBranch.p, NoStmt))

Parser_thenBranch(condition) ==
    IF condition.k # "ok" THEN condition
    ELSE Parser_elseBranch(condition, Parser_statement(condition.p))

Parser_ifStatement(p) ==
    Parser_thenBranch(
        Parser_condition(Parser_consume(p, "LEFT_PAREN", "Expected '(' after if."),
                         "Expected ')' after if condition."))

\* block() with the statements parsed
Parser_closeBlock(statements) ==
    IF statements.k # "ok" THEN statements
    ELSE Parser_built(Parser_consume(statements.p, "RIGHT_BRACE",
                                     "Expected '}' at end of block"),
                      statements.v)

Parser_block(p) == Parser_closeBlock(Parser_statements(p, <<>>, TRUE))

\* buildBlockStatement(this.block())
Parser_blockStatement(b) ==
    IF b.k # "ok" THEN b ELSE Parsed(b.p, BlockStatement(b.v))

Parser_statement(p) ==
    CASE Parser_check(p, "IF") -> Parser_ifStatement(Parser_advance(p))
      [] Parser_check(p, "PRINT") -> Parser_printStatement(Parser_advance(p))
      [] Parser_check(p, "RETURN") -> Parser_returnStatement(Parser_advance(p))
      [] Parser_check(p, "WHILE") -> Parser_whileStatement(Parser_advance(p))
      [] Parser_check(p, "LEFT_BRACE") ->
            Parser_blockStatement(Parser_block(Parser_advance(p)))
      [] OTHER -> Parser_expressionStatement(p)

\* varDeclaration() with the initializer parsed
Parser_varOf(name, initializer) ==
    IF initializer.k # "ok" THEN initializer
    ELSE Parser_built(
             Parser_consume(initializer.p, "SEMICOLON",
                            "Expect ';' after variable declaration."),
             VariableDeclarationStatement(name.v.lexeme, initializer.v))

Parser_initializer(name) ==
    IF name.k # "ok" THEN name
    ELSE Parser_varOf(name,
                      IF Parser_check(name.p, "EQUAL")
                      THEN Parser_expression(Parser_advance(name.p))
                      ELSE Parsed(name.p, NoExpr))

Parser_varDeclaration(p) ==
    Parser_initializer(Parser_consume(p, "IDENTIFIER", "Expect variable name."))

\* the do-while of func(): the parameters, as their lexemes
RECURSIVE Parser_parameters(_, _)

Parser_nextParameter(name, acc) ==
    IF name.k # "ok" THEN name
    ELSE IF Parser_check(name.p, "COMMA")
    THEN Parser_parameters(Parser_advance(name.p), Append(acc, name.v.lexeme))
    ELSE Parsed(name.p, Append(acc, name.v.lexeme))

Parser_parameters(p, acc) ==
    IF Len(acc) >= 255 THEN ParseError(p, "Can't have more than 255 parameters.")
    ELSE Parser_nextParameter(
             Parser_consume(p, "IDENTIFIER", "Expect parameter name."), acc)

\* func() with the body parsed
Parser_funcOf(name, parameters, body) ==
    IF body.k # "ok" THEN body
    ELSE Parsed(body.p, FuncStatement(name.v.lexeme, parameters.v, body.v))

\* func() after `)`, consumed as close
Parser_funcOpen(name, parameters, open) ==
    IF open.k # "ok" THEN open
    ELSE Parser_funcOf(name, parameters, Parser_block(open.p))

Parser_funcBody(name, parameters, close, kind) ==
    IF close.k # "ok" THEN close
    ELSE Parser_funcOpen(name, parameters,
             Parser_consume(close.p, "LEFT_BRACE",
                            "Expect '{' before " \o kind \o " body."))

Parser_funcClose(name, parameters, kind) ==
    IF parameters.k # "ok" THEN parameters
    ELSE Parser_funcBody(name, parameters,
             Parser_consume(parameters.p, "RIGHT_PAREN",
                            "Expect ')' after parameters."),
             kind)

Parser_funcParameters(name, open, kind) ==
    IF open.k # "ok" THEN open
    ELSE Parser_funcClose(name,
             IF Parser_check(open.p, "RIGHT_PAREN") THEN Parsed(open.p, <<>>)
             ELSE Parser_parameters(open.p, <<>>),
             kind)

Parser_funcNamed(name, kind) ==
    IF name.k # "ok" THEN name
    ELSE Parser_funcParameters(name,
             Parser_consume(name.p, "LEFT_PAREN",
                            "Expect '(' after " \o kind \o " name."),
             kind)

Parser_func(p, kind) ==
    Parser_funcNamed(Parser_consume(p, "IDENTIFIER", "Expect " \o kind \o " name."),
                     kind)

\* the loop of classDeclaration() after the method m
Parser_nextMethod(m, acc) ==
    IF m.k # "ok" THEN m ELSE Parser_methods(m.p, Append(acc, m.v))

Parser_methods(p, acc) ==
    IF ~Parser_check(p, "RIGHT_BRACE") /\ ~Parser_isAtEnd(p)
    THEN Parser_nextMethod(Parser_func(p, "method"), acc)
    ELSE Parsed(p, acc)

\* classDeclaration() with the methods parsed
Parser_classOf(name, superClass, methods) ==
    IF methods.k # "ok" THEN methods
    ELSE Parser_built(Parser_consume(methods.p, "RIGHT_BRACE",
                                     "Expected '}' after class body."),
                      ClassStatement(name.v.lexeme, superClass.v, methods.v))

Parser_classOpen(name, superClass, open) ==
    IF open.k # "ok" THEN open
    ELSE Parser_classOf(name, superClass, Parser_methods(open.p, <<>>))

Parser_classBody(name, superClass) ==
    IF superClass.k # "ok" THEN superClass
    ELSE Parser_classOpen(name, superClass,
             Parser_consume(superClass.p, "LEFT_BRACE",
                            "Expected '{' before class body."))

\* buildVariableExpression(superName)
Parser_superClass(superName) ==
    IF superName.k # "ok" THEN superName
    ELSE Parsed(superName.p,
                Variable(NodeOf(superName.p, superName.v), superName.v.lexeme))

Parser_classNamed(name) ==
    IF name.k # "ok" THEN name
    ELSE Parser_classBody(name,
             IF Parser_check(name.p, "LESS")
             THEN Parser_superClass(
                      Parser_consume(Parser_advance(name.p), "IDENTIFIER",
                                     "Expected super class"))
             ELSE Parsed(name.p, NoExpr))

Parser_classDeclaration(p) ==
    Parser_classNamed(Parser_consume(p, "IDENTIFIER", "Expected class name."))

Parser_declaration(p) ==
    CASE Parser_check(p, "CLASS") -> Parser_classDeclaration(Parser_advance(p))
      [] Parser_check(p, "FUN") -> Parser_func(Parser_advance(p), "function")
      [] Parser_check(p, "VAR") -> Parser_varDeclaration(Parser_advance(p))
      [] OTHER -> Parser_statement(p)

\* the loop of parse() and of block() after the statement st
Parser_nextStatement(st, acc, inBlock) ==
    IF st.k # "ok" THEN st ELSE Parser_statements(st.p, Append(acc, st.v), inBlock)

\* while (!isAtEnd()) in parse(), with the test of `}` before it in block()
Parser_statements(p, acc, inBlock) ==
    IF ~(inBlock /\ Parser_check(p, "RIGHT_BRACE")) /\ ~Parser_isAtEnd(p)
    THEN Parser_nextStatement(Parser_declaration(p), acc, inBlock)
    ELSE Parsed(p, acc)

Parser_parse(p) == Parser_statements(p, <<>>, FALSE)

parse(tokens, k) == Parser_parse(NewParser(tokens, k))

(***************************************************************************)
(* Inputs.  Each is the statement list parse(tokenize(line)) returns for   *)
(* the Lox text in its comment; k is the number of the input in the        *)
(* session, so that the nodes of two inputs are distinct objects.          *)
(***************************************************************************)
\* var a = "global";
\* { fun show() { print a; } show(); var a = "local"; show(); }
ClosureScenario(k) ==
    << VariableDeclarationStatement("a", Literal(Str("global"))),
       BlockStatement(<<
           FuncStatement("show", <<>>, <<PrintStatement(Variable(<<k, 1>>, "a"))>>),
           ExpressionStatement(Call(Variable(<<k, 2>>, "show"), <<>>)),
           VariableDeclarationStatement("a", Literal(Str("local"))),
           ExpressionStatement(Call(Variable(<<k, 3>>, "show"), <<>>)) >>) >>

\* var a = "g";
\* fun outer() { fun show() { print a; } show(); var a = "l"; show(); }
\* outer();
ClosureInFunction(k) ==
    << VariableDeclarationStatement("a", Literal(Str("g"))),
       FuncStatement("outer", <<>>, <<
           FuncStatement("show", <<>>, <<PrintStatement(Variable(<<k, 1>>, "a"))>>),
           ExpressionStatement(Call(Variable(<<k, 2>>, "show"), <<>>)),
           VariableDeclarationStatement("a", Literal(Str("l"))),
           ExpressionStatement(Call(Variable(<<k, 3>>, "show"), <<>>)) >>),
       ExpressionStatement(Call(Variable(<<k, 4>>, "outer"), <<>>)) >>

\* fun make() { var c = 0; fun inc() { c = c + 1; return c; } return inc; }
\* var i1 = make(); print i1(); print i1();
ClosureCounter(k) ==
    << FuncStatement("make", <<>>, <<
           VariableDeclarationStatement("c", Literal(Num(0))),
           FuncStatement("inc", <<>>, <<
               ExpressionStatement(Assignement(<<k, 1>>, "c",
                   Binary(Variable(<<k, 2>>, "c"), "PLUS", Literal(Num(1))))),
               RetStatement(Variable(<<k, 3>>, "c")) >>),
           RetStatement(Variable(<<k, 4>>, "inc")) >>),
       VariableDeclarationStatement("i1", Call(Variable(<<k, 5>>, "make"), <<>>)),
       PrintStatement(Call(Variable(<<k, 6>>, "i1"), <<>>)),
       PrintStatement(Call(Variable(<<k, 7>>, "i1"), <<>>)) >>

\* var g = 1; { var l = 2; { print 1 + "a"; } }
ErrorInBlocks(k) ==
    << VariableDeclarationStatement("g", Literal(Num(1))),
       BlockStatement(<<
           VariableDeclarationStatement("l", Literal(Num(2))),
           BlockStatement(<<
               PrintStatement(Binary(Literal(Num(1)), "PLUS", Literal(Str("a"))))
           >>) >>) >>

\* print g;
PrintG(k) == << PrintStatement(Variable(<<k, 1>>, "g")) >>

\* fun r(x) { { if (x) { return 1; } } return 2; } print r(true); print r(false);
ReturnInBlock(k) ==
    << FuncStatement("r", <<"x">>, <<
           BlockStatement(<<
               IfStatement(Variable(<<k, 1>>, "x"),
                           BlockStatement(<<RetStatement(Literal(Num(1)))>>),
                           NoStmt) >>),
           RetStatement(Literal(Num(2))) >>),
       PrintStatement(Call(Variable(<<k, 2>>, "r"), <<Literal(Bool(TRUE))>>)),
       PrintStatement(Call(Variable(<<k, 3>>, "r"), <<Literal(Bool(FALSE))>>)) >>

\* fun r(x) { { if (x) { return 1; } } return 2; }
\* { r(false); r(true); { nosuch = 1; } }
ReturnThenError(k) ==
    << FuncStatement("r", <<"x">>, <<
           BlockStatement(<<
               IfStatement(Variable(<<k, 1>>, "x"),
                           BlockStatement(<<RetStatement(Literal(Num(1)))>>),
                           NoStmt) >>),
           RetStatement(Literal(Num(2))) >>),
       BlockStatement(<<
           ExpressionStatement(Call(Variable(<<k, 4>>, "r"), <<Literal(Bool(FALSE))>>)),
           ExpressionStatement(Call(Variable(<<k, 2>>, "r"), <<Literal(Bool(TRUE))>>)),
           BlockStatement(<<
               ExpressionStatement(Assignement(<<k, 3>>, "nosuch", Literal(Num(1))))
           >>) >>) >>

\* fun bad() { var a; var a; }
DupInFunction(k) ==
    << FuncStatement("bad", <<>>, <<
           VariableDeclarationStatement("a", NoExpr),
           VariableDeclarationStatement("a", NoExpr) >>) >>

\* return;
TopReturn(k) == << RetStatement(NoExpr) >>

\* class C { init() { this.x = 1; } }
\* var i = C(); var r = i.init(); print r == i;
InitDirect(k) ==
    << ClassStatement("C", NoExpr, <<
           FuncStatement("init", <<>>, <<
               ExpressionStatement(SetExpr(This(<<k, 1>>), "x", Literal(Num(1)))) >>) >>),
       VariableDeclarationStatement("i", Call(Variable(<<k, 2>>, "C"), <<>>)),
       VariableDeclarationStatement("r",
           Call(GetExpr(Variable(<<k, 3>>, "i"), "init"), <<>>)),
       PrintStatement(Binary(Variable(<<k, 4>>, "r"), "EQUAL_EQUAL",
                             Variable(<<k, 5>>, "i"))) >>

\* class D { init() { return; } }
InitReturn(k) ==
    << ClassStatement("D", NoExpr, <<
           FuncStatement("init", <<>>, <<RetStatement(NoExpr)>>) >>) >>

\* var a; var b; a = b = 2; print b; { var c; print c = 1; }
AssignChain(k) ==
    << VariableDeclarationStatement("a", NoExpr),
       VariableDeclarationStatement("b", NoExpr),
       ExpressionStatement(Assignement(<<k, 1>>, "a",
           Assignement(<<k, 2>>, "b", Literal(Num(2))))),
       PrintStatement(Variable(<<k, 3>>, "b")),
       BlockStatement(<<
           VariableDeclarationStatement("c", NoExpr),
           PrintStatement(Assignement(<<k, 4>>, "c", Literal(Num(1)))) >>) >>

\* fun f() { { nosuch = 1; } } var h = 2; { f(); }
AssignUndeclared(k) ==
    << FuncStatement("f", <<>>, <<
           BlockStatement(<<
               ExpressionStatement(Assignement(<<k, 1>>, "nosuch", Literal(Num(1))))
           >>) >>),
       VariableDeclarationStatement("h", Literal(Num(2))),
       BlockStatement(<<ExpressionStatement(Call(Variable(<<k, 2>>, "f"), <<>>))>>) >>

\* g = g + 1; print g;
AssignG(k) ==
    << ExpressionStatement(Assignement(<<k, 1>>, "g",
           Binary(Variable(<<k, 2>>, "g"), "PLUS", Literal(Num(1))))),
       PrintStatement(Variable(<<k, 3>>, "g")) >>

\* fun rec() { rec(); } rec();
Recursion(k) ==
    << FuncStatement("rec", <<>>, <<
           ExpressionStatement(Call(Variable(<<k, 1>>, "rec"), <<>>)) >>),
       ExpressionStatement(Call(Variable(<<k, 2>>, "rec"), <<>>)) >>

\* var n = 0; while (n < 2) { n = n + 1; } print -n; print !n; print clock() < 0;
Loop(k) ==
    << VariableDeclarationStatement("n", Literal(Num(0))),
       WhileStatement(Binary(Variable(<<k, 1>>, "n"), "LESS", Literal(Num(2))),
           BlockStatement(<<
               ExpressionStatement(Assignement(<<k, 2>>, "n",
                   Binary(Variable(<<k, 3>>, "n"), "PLUS", Literal(Num(1))))) >>)),
       PrintStatement(Unary("MINUS", Variable(<<k, 4>>, "n"))),
       PrintStatement(Unary("BANG", Grouping(Variable(<<k, 5>>, "n")))),
       PrintStatement(Binary(Call(Variable(<<k, 6>>, "clock"), <<>>), "LESS",
                             Literal(Num(0)))) >>

\* class A { greet() { print "A"; } }
\* class B < A { greet() { super.greet(); print "B"; } }
\* B().greet();
SuperScenario(k) ==
    << ClassStatement("A", NoExpr, <<
           FuncStatement("greet", <<>>, <<PrintStatement(Literal(Str("A")))>>) >>),
       ClassStatement("B", Variable(<<k, 1>>, "A"), <<
           FuncStatement("greet", <<>>, <<
               ExpressionStatement(Call(Super(<<k, 2>>, "greet"), <<>>)),
               PrintStatement(Literal(Str("B"))) >>) >>),
       ExpressionStatement(
           Call(GetExpr(Call(Variable(<<k, 3>>, "B"), <<>>), "greet"), <<>>)) >>

\* var x = 1; { var x = x; }
OwnInitializer(k) ==
    << VariableDeclarationStatement("x", Literal(Num(1))),
       BlockStatement(<<
           VariableDeclarationStatement("x", Variable(<<k, 1>>, "x")) >>) >>

\* the lines a REPL user types (input number k)
Inputs(k) ==
    { ClosureScenario(k), ClosureInFunction(k), ClosureCounter(k), ErrorInBlocks(k),
      PrintG(k), ReturnInBlock(k), ReturnThenError(k), DupInFunction(k),
      TopReturn(k), InitDirect(k), InitReturn(k), AssignChain(k),
      AssignUndeclared(k), AssignG(k), Recursion(k), Loop(k), SuperScenario(k),
      OwnInitializer(k) }

(***************************************************************************)
(* Programs for the resolver: every way of putting two declarations, a     *)
(* `var` with an initializer, or a `return` into the kinds of scope the    *)
(* grammar has.  The Lox text of each shape is in its comment; d1, d2, v   *)
(* and r stand for the statement put in.                                   *)
(***************************************************************************)
DeclKinds == {"var", "fun", "class"}

DeclNames == {"a", "b"}

\* var n;  /  fun n() {}  /  class n {}
Declaration(kind, name) ==
    CASE kind = "var" -> VariableDeclarationStatement(name, NoExpr)
      [] kind = "fun" -> FuncStatement(name, <<>>, <<>>)
      [] kind = "class" -> ClassStatement(name, NoExpr, <<>>)

\* class K { name(params) { body } }
MethodOfK(name, params, body) ==
    ClassStatement("K", NoExpr, <<FuncStatement(name, params, body)>>)

DeclShapes ==
    {"global", "block", "function", "method", "initializer", "if",
     "global-block", "block-block", "function-block", "block-function",
     "parameter", "method-parameter", "parameter-block"}

\* two declarations in one scope, or the second in a scope inside the
\* scope of the first
DeclProgram(shape, d1, d2) ==
    CASE shape = "global" -> <<d1, d2>>                      \* d1 d2
      [] shape = "block" -> <<BlockStatement(<<d1, d2>>)>>   \* { d1 d2 }
      [] shape = "function" ->                               \* fun f() { d1 d2 }
            <<FuncStatement("f", <<>>, <<d1, d2>>)>>
      [] shape = "method" ->                                 \* class K { m() { d1 d2 } }
            <<MethodOfK("m", <<>>, <<d1, d2>>)>>
      [] shape = "initializer" ->                            \* class K { init() { d1 d2 } }
            <<MethodOfK("init", <<>>, <<d1, d2>>)>>
      [] shape = "if" ->                                     \* if (true) { d1 d2 }
            <<IfStatement(Literal(Bool(TRUE)), BlockStatement(<<d1, d2>>), NoStmt)>>
      [] shape = "global-block" ->                           \* d1 { d2 }
            <<d1, BlockStatement(<<d2>>)>>
      [] shape = "block-block" ->                            \* { d1 { d2 } }
            <<BlockStatement(<<d1, BlockStatement(<<d2>>)>>)>>
      [] shape = "function-block" ->                         \* fun f() { d1 { d2 } }
            <<FuncStatement("f", <<>>, <<d1, BlockStatement(<<d2>>)>>)>>
      [] shape = "block-function" ->                         \* { d1 fun f() { d2 } }
            <<BlockStatement(<<d1, FuncStatement("f", <<>>, <<d2>>)>>)>>
      [] shape = "parameter" ->                              \* fun f(n1) { d2 }
            <<FuncStatement("f", <<d1.name>>, <<d2>>)>>
      [] shape = "method-parameter" ->                       \* class K { m(n1) { d2 } }
            <<MethodOfK("m", <<d1.name>>, <<d2>>)>>
      [] shape = "parameter-block" ->                        \* fun f(n1) { { d2 } }
            <<FuncStatement("f", <<d1.name>>, <<BlockStatement(<<d2>>)>>)>>

\* fun f(a, n) {}  /  class K { m(a, n) {} }  /  { fun n(a) {} }
ParameterPrograms ==
    UNION {{ <<FuncStatement("f", <<"a", n>>, <<>>)>>,
             <<MethodOfK("m", <<"a", n>>, <<>>)>>,
             <<BlockStatement(<<FuncStatement(n, <<"a">>, <<>>)>>)>> } : n \in DeclNames}

DeclPrograms ==
    {DeclProgram(shape, Declaration(k1, "a"), Declaration(k2, n)) :
        shape \in DeclShapes, k1 \in DeclKinds, k2 \in DeclKinds, n \in DeclNames}
    \cup ParameterPrograms

\* initializer expressions that read `a`, and some that do not
Initializers ==
    { Variable(<<1, 1>>, "a"),                                      \* a
      Grouping(Variable(<<1, 1>>, "a")),                            \* (a)
      Unary("MINUS", Variable(<<1, 1>>, "a")),                      \* -a
      Binary(Variable(<<1, 1>>, "a"), "PLUS", Literal(Num(1))),     \* a + 1
      Binary(Literal(Num(1)), "PLUS", Variable(<<1, 1>>, "a")),     \* 1 + a
      Call(Variable(<<1, 1>>, "a"), <<>>),                          \* a()
      Call(Variable(<<1, 2>>, "clock"),
           <<Literal(Num(1)), Variable(<<1, 1>>, "a")>>),           \* clock(1, a)
      GetExpr(Variable(<<1, 1>>, "a"), "p"),                        \* a.p
      SetExpr(Variable(<<1, 1>>, "a"), "p", Literal(Num(1))),       \* a.p = 1
      SetExpr(Variable(<<1, 2>>, "o"), "p", Variable(<<1, 1>>, "a")),  \* o.p = a
      Assignement(<<1, 2>>, "o", Variable(<<1, 1>>, "a")),          \* o = a
      Assignement(<<1, 2>>, "a", Literal(Num(1))),                  \* a = 1
      Variable(<<1, 2>>, "o"),                                      \* o
      Literal(Num(1)) }                                             \* 1

InitializerShapes ==
    {"global", "global-global", "block", "global-block", "block-block",
     "function", "parameter-block", "method", "while"}

\* v is `var a = <initializer>;`, p is `var a = 1;`
InitializerProgram(shape, v, p) ==
    CASE shape = "global" -> <<v>>                              \* v
      [] shape = "global-global" -> <<p, v>>                    \* p v
      [] shape = "block" -> <<BlockStatement(<<v>>)>>           \* { v }
      [] shape = "global-block" -> <<p, BlockStatement(<<v>>)>> \* p { v }
      [] shape = "block-block" ->                               \* { p { v } }
            <<BlockStatement(<<p, BlockStatement(<<v>>)>>)>>
      [] shape = "function" ->                                  \* fun f() { v }
            <<FuncStatement("f", <<>>, <<v>>)>>
      [] shape = "parameter-block" ->                           \* fun f(a) { { v } }
            <<FuncStatement("f", <<"a">>, <<BlockStatement(<<v>>)>>)>>
      [] shape = "method" -> <<MethodOfK("m", <<>>, <<v>>)>>    \* class K { m() { v } }
      [] shape = "while" ->                                     \* while (false) { v }
            <<WhileStatement(Literal(Bool(FALSE)), BlockStatement(<<v>>))>>

InitializerPrograms ==
    {InitializerProgram(shape, VariableDeclarationStatement("a", e),
                        VariableDeclarationStatement("a", Literal(Num(1)))) :
        shape \in InitializerShapes, e \in Initializers}

\* what a return statement carries: nothing, 1, this, a
ReturnValues ==
    {NoExpr, Literal(Num(1)), This(<<1, 1>>), Variable(<<1, 1>>, "a")}

ReturnShapes ==
    {"initializer", "initializer-block", "initializer-if", "initializer-function",
     "method", "function", "global"}

ReturnProgram(shape, r) ==
    CASE shape = "initializer" ->                   \* class K { init() { r } }
            <<MethodOfK("init", <<>>, <<r>>)>>
      [] shape = "initializer-block" ->             \* class K { init() { { r } } }
            <<MethodOfK("init", <<>>, <<BlockStatement(<<r>>)>>)>>
      [] shape = "initializer-if" ->                \* class K { init() { if (true) r } }
            <<MethodOfK("init", <<>>, <<IfStatement(Literal(Bool(TRUE)), r, NoStmt)>>)>>
      [] shape = "initializer-function" ->          \* class K { init() { fun g() { r } } }
            <<MethodOfK("init", <<>>, <<FuncStatement("g", <<>>, <<r>>)>>)>>
      [] shape = "method" ->                        \* class K { m() { r } }
            <<MethodOfK("m", <<>>, <<r>>)>>
      [] shape = "function" ->                      \* fun f() { r }
            <<FuncStatement("f", <<>>, <<r>>)>>
      [] shape = "global" -> <<r>>                  \* r

ReturnPrograms ==
    {ReturnProgram(shape, RetStatement(value)) :
        shape \in ReturnShapes, value \in ReturnValues}

\* class name { m() { body } }, with `< A` when sub
ClassWithMethod(name, sub, m, body) ==
    ClassStatement(name, IF sub THEN Variable(<<1, 9>>, "A") ELSE NoExpr,
                   <<FuncStatement(m, <<>>, body)>>)

ClassShapes ==
    {"global", "function", "class", "subclass", "class-function", "class-block",
     "subclass-class", "subclass-class-after", "class-subclass",
     "class-subclass-after", "class-after", "subclass-after",
     "subclass-subclass-after"}

\* x is the statement `this;` or `super.m;`
ClassProgram(shape, x) ==
    CASE shape = "global" -> <<x>>                          \* x
      [] shape = "function" ->                              \* fun f() { x }
            <<FuncStatement("f", <<>>, <<x>>)>>
      [] shape = "class" ->                                 \* class K { m() { x } }
            <<ClassWithMethod("K", FALSE, "m", <<x>>)>>
      [] shape = "subclass" ->                              \* class K < A { m() { x } }
            <<ClassWithMethod("K", TRUE, "m", <<x>>)>>
      [] shape = "class-function" ->              \* class K { m() { fun g() { x } } }
            <<ClassWithMethod("K", FALSE, "m", <<FuncStatement("g", <<>>, <<x>>)>>)>>
      [] shape = "class-block" ->                 \* class K { m() { { x } } }
            <<ClassWithMethod("K", FALSE, "m", <<BlockStatement(<<x>>)>>)>>
      [] shape = "subclass-class" ->    \* class K < A { m() { class L { n() { x } } } }
            <<ClassWithMethod("K", TRUE, "m",
                              <<ClassWithMethod("L", FALSE, "n", <<x>>)>>)>>
      [] shape = "subclass-class-after" ->  \* class K < A { m() { class L { n() {} } x } }
            <<ClassWithMethod("K", TRUE, "m",
                              <<ClassWithMethod("L", FALSE, "n", <<>>), x>>)>>
      [] shape = "class-subclass" ->    \* class K { m() { class L < A { n() { x } } } }
            <<ClassWithMethod("K", FALSE, "m",
                              <<ClassWithMethod("L", TRUE, "n", <<x>>)>>)>>
      [] shape = "class-subclass-after" ->  \* class K { m() { class L < A { n() {} } x } }
            <<ClassWithMethod("K", FALSE, "m",
                              <<ClassWithMethod("L", TRUE, "n", <<>>), x>>)>>
      [] shape = "class-after" ->                 \* class K { m() {} } x
            <<ClassWithMethod("K", FALSE, "m", <<>>), x>>
      [] shape = "subclass-after" ->              \* class K < A { m() {} } x
            <<ClassWithMethod("K", TRUE, "m", <<>>), x>>
      [] shape = "subclass-subclass-after" ->
                                    \* class K < A { m() { class L < A { n() {} } x } }
            <<ClassWithMethod("K", TRUE, "m",
                              <<ClassWithMethod("L", TRUE, "n", <<>>), x>>)>>

\* this;  /  super.m;  /  print this.p;  /  super.m();
ClassExpressions ==
    { ExpressionStatement(This(<<1, 1>>)),
      ExpressionStatement(Super(<<1, 1>>, "m")),
      PrintStatement(GetExpr(This(<<1, 1>>), "p")),
      ExpressionStatement(Call(Super(<<1, 1>>, "m"), <<>>)) }

ClassPrograms ==
    {ClassProgram(shape, x) : shape \in ClassShapes, x \in ClassExpressions}

\* the programs given to a fresh resolver
Programs ==
    DeclPrograms \cup InitializerPrograms \cup ReturnPrograms \cup ClassPrograms

(***************************************************************************)
(* Programs for the interpreter, each run as the first line of a fresh     *)
(* REPL.                                                                   *)
(***************************************************************************)
\* print "text";
PrintLine(text) == PrintStatement(Literal(Str(text)))

\* name() { print "text"; }
PrintingMethod(name, text) == FuncStatement(name, <<>>, <<PrintLine(text)>>)

\* class Z { z() { print "Z.z"; } }
\* class A < Z { m() { print "A.m"; } }
\* class B < A { m() { print "B.m"; } z() { print "B.z"; }
\*               test() { super.<method>(); } }
\* class C < B { m() { print "C.m"; } z() { print "C.z"; } }
\* <receiver>().test();
SuperProgram(receiver, method) ==
    << ClassStatement("Z", NoExpr, <<PrintingMethod("z", "Z.z")>>),
       ClassStatement("A", Variable(<<1, 1>>, "Z"), <<PrintingMethod("m", "A.m")>>),
       ClassStatement("B", Variable(<<1, 2>>, "A"),
           << PrintingMethod("m", "B.m"), PrintingMethod("z", "B.z"),
              FuncStatement("test", <<>>, <<
                  ExpressionStatement(Call(Super(<<1, 3>>, method), <<>>)) >>) >>),
       ClassStatement("C", Variable(<<1, 4>>, "B"),
           << PrintingMethod("m", "C.m"), PrintingMethod("z", "C.z") >>),
       ExpressionStatement(
           Call(GetExpr(Call(Variable(<<1, 5>>, receiver), <<>>), "test"), <<>>)) >>

SuperPrograms ==
    {SuperProgram(receiver, method) :
        receiver \in {"B", "C"}, method \in {"m", "z", "nosuch"}}

\* what a variable can hold that is not a class
NotClassKinds == {"nil", "number", "string", "boolean", "function", "instance"}

\* nil; 1; "s"; true
LiteralOf(kind) ==
    CASE kind = "nil" -> Literal(Nil)
      [] kind = "number" -> Literal(Num(1))
      [] kind = "string" -> Literal(Str("s"))
      [] kind = "boolean" -> Literal(Bool(TRUE))

\* the declarations after which S holds a value of the kind:
\*   var S = nil;   var S = 1;   var S = "s";   var S = true;
\*   fun S() { }    class Z { } var S = Z();    class S { }
DeclareS(kind) ==
    CASE kind = "function" -> << FuncStatement("S", <<>>, <<>>) >>
      [] kind = "instance" ->
            << ClassStatement("Z", NoExpr, <<>>),
               VariableDeclarationStatement("S",
                   Call(Variable(<<1, 1>>, "Z"), <<>>)) >>
      [] kind = "class" -> << ClassStatement("S", NoExpr, <<>>) >>
      [] OTHER -> << VariableDeclarationStatement("S", LiteralOf(kind)) >>

\* <S of the kind>  class K < S { m() { print "K.m"; } }
SuperclassProgram(kind) ==
    DeclareS(kind) \o
    << ClassStatement("K", Variable(<<1, 2>>, "S"),
                      <<PrintingMethod("m", "K.m")>>) >>

SuperclassPrograms == {SuperclassProgram(kind) : kind \in NotClassKinds \cup {"class"}}

\* what cannot be called
NotCallableKinds == {"nil", "boolean", "number", "string", "instance"}

\* 1, ..., n as argument list
Arguments(n) == [i \in 1..n |-> Literal(Num(i))]

\* <S of the kind>  S(<n arguments>);
CallProgram(kind, n) ==
    DeclareS(kind) \o
    << ExpressionStatement(Call(Variable(<<1, 3>>, "S"), Arguments(n))) >>

CallPrograms ==
    {CallProgram(kind, n) : kind \in NotCallableKinds \cup {"function", "class"},
                            n \in {0, 1}}

\* what has no properties
NotInstanceKinds == {"nil", "boolean", "number", "string", "function", "class"}

\* <S of the kind>  print S.name;
GetProgram(kind, name) ==
    DeclareS(kind) \o
    << PrintStatement(GetExpr(Variable(<<1, 4>>, "S"), name)) >>

GetPrograms ==
    {GetProgram(kind, name) : kind \in NotInstanceKinds \cup {"instance"},
                              name \in {"name", "length"}}

\* a; a, b; a, b, c
Params(p) == [i \in 1..p |-> <<"a", "b", "c", "d">>[i]]

\* print "body"; print a; print b;
PrintParams(p) ==
    <<PrintLine("body")>> \o
    [i \in 1..p |-> PrintStatement(Variable(<<1, 10 + i>>, Params(p)[i]))]

\* fun f(<p parameters>) { print "body"; print a; print b; }  f(<n arguments>);
\* class K { init(<p parameters>) { print "body"; ... } }     K(<n arguments>);
\* class K { }                                                K(<n arguments>);
ArityProgram(kind, p, n) ==
    CASE kind = "function" ->
            << FuncStatement("f", Params(p), PrintParams(p)),
               ExpressionStatement(Call(Variable(<<1, 5>>, "f"), Arguments(n))) >>
      [] kind = "class" ->
            << ClassStatement("K", NoExpr,
                              <<FuncStatement("init", Params(p), PrintParams(p))>>),
               ExpressionStatement(Call(Variable(<<1, 5>>, "K"), Arguments(n))) >>
      [] kind = "bare" ->
            << ClassStatement("K", NoExpr, <<>>),
               ExpressionStatement(Call(Variable(<<1, 5>>, "K"), Arguments(n))) >>

MaxParams == 2

ArityPrograms ==
    {ArityProgram(kind, p, n) : kind \in {"function", "class"},
                                p \in 0..MaxParams, n \in 0..MaxParams}
        \cup {ArityProgram("bare", 0, n) : n \in 0..MaxParams}

\* init(<p parameters>) { print "<tag>"; print a; print b; this.x = a; }
\* with `this.x = 0;` when there is no parameter; the nodes take their ids
\* from base
InitMethod(tag, p, base) ==
    FuncStatement("init", Params(p),
        <<PrintLine(tag)>> \o
        [i \in 1..p |-> PrintStatement(Variable(<<1, base + i>>, Params(p)[i]))] \o
        << ExpressionStatement(
               SetExpr(This(<<1, base>>), "x",
                       IF p = 0 THEN Literal(Num(0))
                       ELSE Variable(<<1, base + p + 1>>, "a"))) >>)

\* class G { init(a) { ... } }
\* class P < G { init(a, b) { ... } }
\* class K < P { init() { ... } }
\* var i = K(<n arguments>);
\* var j = K(<n arguments>);
\* where only the classes of `inits` declare their init
ConstructProgram(inits, n) ==
    << ClassStatement("G", NoExpr,
           IF "G" \in inits THEN <<InitMethod("G.init", 1, 30)>> ELSE <<>>),
       ClassStatement("P", Variable(<<1, 1>>, "G"),
           IF "P" \in inits THEN <<InitMethod("P.init", 2, 40)>> ELSE <<>>),
       ClassStatement("K", Variable(<<1, 2>>, "P"),
           IF "K" \in inits THEN <<InitMethod("K.init", 0, 50)>> ELSE <<>>),
       VariableDeclarationStatement("i", Call(Variable(<<1, 3>>, "K"), Arguments(n))),
       VariableDeclarationStatement("j", Call(Variable(<<1, 4>>, "K"), Arguments(n))) >>

ConstructPrograms ==
    {ConstructProgram(inits, n) : inits \in SUBSET {"G", "P", "K"}, n \in 0..MaxParams}

\* class A { m() { print "A.m"; } n() { print "A.n"; } }
\* class B < A { m() { print "B.m"; } }
\* var i = B();
\* i.<field> = "field";          (left out when field is "none")
\* var r = i.<name>;
PropertyProgram(field, name) ==
    << ClassStatement("A", NoExpr,
           << PrintingMethod("m", "A.m"), PrintingMethod("n", "A.n") >>),
       ClassStatement("B", Variable(<<1, 1>>, "A"), <<PrintingMethod("m", "B.m")>>),
       VariableDeclarationStatement("i", Call(Variable(<<1, 2>>, "B"), <<>>)) >> \o
    (IF field = "none" THEN <<>>
     ELSE << ExpressionStatement(
                 SetExpr(Variable(<<1, 3>>, "i"), field, Literal(Str("field")))) >>) \o
    << VariableDeclarationStatement("r", GetExpr(Variable(<<1, 4>>, "i"), name)) >>

PropertyPrograms ==
    {PropertyProgram(field, name) :
        field \in {"none", "m", "n", "x"}, name \in {"m", "n", "x", "nosuch"}}

\* K("<name>")
NewK(id, name) == Call(Variable(<<1, id>>, "K"), <<Literal(Str(name))>>)

\* <object>.<name>
PropertyOf(id, object, name) == GetExpr(Variable(<<1, id>>, object), name)

\* <name>();
CallStatement(callee) == ExpressionStatement(Call(callee, <<>>))

\* the ways a method is called on its receiver:
\*   direct      i.who(); j.who(); i.who();
\*   variable    var f = i.who; var g = j.who; f(); g(); f();
\*   field       j.f = i.who; j.f(); i.f = j.who; i.f(); j.f();
CallsOfWho(how) ==
    CASE how = "direct" ->
            << CallStatement(PropertyOf(10, "i", "who")),
               CallStatement(PropertyOf(11, "j", "who")),
               CallStatement(PropertyOf(12, "i", "who")) >>
      [] how = "variable" ->
            << VariableDeclarationStatement("f", PropertyOf(10, "i", "who")),
               VariableDeclarationStatement("g", PropertyOf(11, "j", "who")),
               CallStatement(Variable(<<1, 12>>, "f")),
               CallStatement(Variable(<<1, 13>>, "g")),
               CallStatement(Variable(<<1, 14>>, "f")) >>
      [] how = "field" ->
            << ExpressionStatement(
                   SetExpr(Variable(<<1, 10>>, "j"), "f", PropertyOf(11, "i", "who"))),
               CallStatement(PropertyOf(12, "j", "f")),
               ExpressionStatement(
                   SetExpr(Variable(<<1, 13>>, "i"), "f", PropertyOf(14, "j", "who"))),
               CallStatement(PropertyOf(15, "i", "f")),
               CallStatement(PropertyOf(16, "j", "f")) >>

\* class Z { }                                      (when sub)
\* class K [< Z] { init(n) { this.name = n; } who() { print this.name; } }
\* var i = K("i");
\* var j = K("j");
\* <the calls of who>
BindProgram(how, sub) ==
    (IF sub THEN << ClassStatement("Z", NoExpr, <<>>) >> ELSE <<>>) \o
    << ClassStatement("K", IF sub THEN Variable(<<1, 1>>, "Z") ELSE NoExpr,
           << FuncStatement("init", <<"n">>, <<
                  ExpressionStatement(
                      SetExpr(This(<<1, 2>>), "name", Variable(<<1, 3>>, "n"))) >>),
              FuncStatement("who", <<>>, <<
                  PrintStatement(GetExpr(This(<<1, 4>>), "name")) >>) >>),
       VariableDeclarationStatement("i", NewK(5, "i")),
       VariableDeclarationStatement("j", NewK(6, "j")) >> \o
    CallsOfWho(how)

BindPrograms ==
    {BindProgram(how, sub) : how \in {"direct", "variable", "field"}, sub \in BOOLEAN}

\* <name> = <from>;
Copy(id, name, from) ==
    ExpressionStatement(Assignement(<<1, id>>, name, Variable(<<1, id + 1>>, from)))

\* var n = 0;
\* fun up() { n = n + 1; }
\* fun show() { print n; }
Counter ==
    << VariableDeclarationStatement("n", Literal(Num(0))),
       FuncStatement("up", <<>>, <<
           ExpressionStatement(
               Assignement(<<1, 20>>, "n",
                   Binary(Variable(<<1, 21>>, "n"), "PLUS", Literal(Num(1))))) >>),
       FuncStatement("show", <<>>, << PrintStatement(Variable(<<1, 22>>, "n")) >>) >>

\* a(); a(); b(); show1(); up1(); show1(); b();
CallsOfCounters ==
    << CallStatement(Variable(<<1, 40>>, "a")),
       CallStatement(Variable(<<1, 41>>, "a")),
       CallStatement(Variable(<<1, 42>>, "b")),
       CallStatement(Variable(<<1, 43>>, "show1")),
       CallStatement(Variable(<<1, 44>>, "up1")),
       CallStatement(Variable(<<1, 45>>, "show1")),
       CallStatement(Variable(<<1, 46>>, "b")) >>

\* var a; var b; var up1; var show1;
CounterVariables ==
    << VariableDeclarationStatement("a", NoExpr),
       VariableDeclarationStatement("b", NoExpr),
       VariableDeclarationStatement("up1", NoExpr),
       VariableDeclarationStatement("show1", NoExpr) >>

\* block:     { <counter> up(); show(); n = 5; show(); up(); print n; }
\* function:  var a; var b; var up1; var show1;
\*            fun make() { <counter> up1 = up; show1 = show; }
\*            make(); a = up1; b = show1; make();
\*            a(); a(); b(); show1(); up1(); show1(); b();
\* loop:      var a; var b; var up1; var show1; var k = 0;
\*            while (k < 2) {
\*              <counter>
\*              if (k == 0) { a = up; b = show; } else { up1 = up; show1 = show; }
\*              k = k + 1;
\*            }
\*            a(); a(); b(); show1(); up1(); show1(); b();
CounterProgram(shape) ==
    CASE shape = "block" ->
            << BlockStatement(Counter \o
                   << CallStatement(Variable(<<1, 23>>, "up")),
                      CallStatement(Variable(<<1, 24>>, "show")),
                      ExpressionStatement(Assignement(<<1, 25>>, "n", Literal(Num(5)))),
                      CallStatement(Variable(<<1, 26>>, "show")),
                      CallStatement(Variable(<<1, 27>>, "up")),
                      PrintStatement(Variable(<<1, 28>>, "n")) >>) >>
      [] shape = "function" ->
            CounterVariables \o
            << FuncStatement("make", <<>>,
                   Counter \o << Copy(30, "up1", "up"), Copy(32, "show1", "show") >>),
               CallStatement(Variable(<<1, 34>>, "make")),
               Copy(35, "a", "up1"),
               Copy(37, "b", "show1"),
               CallStatement(Variable(<<1, 39>>, "make")) >> \o
            CallsOfCounters
      [] shape = "loop" ->
            CounterVariables \o
            << VariableDeclarationStatement("k", Literal(Num(0))),
               WhileStatement(
                   Binary(Variable(<<1, 29>>, "k"), "LESS", Literal(Num(2))),
                   BlockStatement(Counter \o
                       << IfStatement(
                              Binary(Variable(<<1, 30>>, "k"), "EQUAL_EQUAL",
                                     Literal(Num(0))),
                              BlockStatement(<< Copy(31, "a", "up"),
                                                Copy(33, "b", "show") >>),
                              BlockStatement(<< Copy(35, "up1", "up"),
                                                Copy(37, "show1", "show") >>)),
                          ExpressionStatement(
                              Assignement(<<1, 47>>, "k",
                                  Binary(Variable(<<1, 48>>, "k"), "PLUS",
                                         Literal(Num(1))))) >>)) >> \o
            CallsOfCounters

CounterPrograms == {CounterProgram(shape) : shape \in {"block", "function", "loop"}}

\* { [var a;] { <inner> } } where <inner> is
\*   a = 1;               for "none"
\*   var a = (a = 1);     for "declared": a is declared, not yet defined
\*   var a; a = 1;        for "defined"
\* and the outer `var a;` is there when outer
InnerKinds == {"none", "declared", "defined"}

AssignA == Assignement(<<1, 1>>, "a", Literal(Num(1)))

ScopeProgram(outer, inner) ==
    << BlockStatement(
           (IF outer THEN <<VariableDeclarationStatement("a", NoExpr)>> ELSE <<>>)
           \o << BlockStatement(
                     CASE inner = "none" -> <<ExpressionStatement(AssignA)>>
                       [] inner = "declared" ->
                            <<VariableDeclarationStatement("a", Grouping(AssignA))>>
                       [] inner = "defined" ->
                            <<VariableDeclarationStatement("a", NoExpr),
                              ExpressionStatement(AssignA)>>) >>) >>

ScopePrograms ==
    {ScopeProgram(outer, inner) : outer \in BOOLEAN, inner \in InnerKinds}

\* class A { m() { print "A.m"; } }
\* class B < A { m(x) { var y = x; { super.m(); this.f = y; y = 2; print y; } } }
\* B().m(1);
AgreementProgram ==
    << ClassStatement("A", NoExpr, <<PrintingMethod("m", "A.m")>>),
       ClassStatement("B", Variable(<<1, 1>>, "A"), <<
           FuncStatement("m", <<"x">>, <<
               VariableDeclarationStatement("y", Variable(<<1, 2>>, "x")),
               BlockStatement(<<
                   ExpressionStatement(Call(Super(<<1, 3>>, "m"), <<>>)),
                   ExpressionStatement(
                       SetExpr(This(<<1, 4>>), "f", Variable(<<1, 5>>, "y"))),
                   ExpressionStatement(
                       Assignement(<<1, 6>>, "y", Literal(Num(2)))),
                   PrintStatement(Variable(<<1, 7>>, "y")) >>) >>) >>),
       ExpressionStatement(
           Call(GetExpr(Call(Variable(<<1, 8>>, "B"), <<>>), "m"),
                <<Literal(Num(1))>>)) >>

\* fun name() { print "name"; return value; }
Telling(name, value) ==
    FuncStatement(name, <<>>, <<PrintLine(name), RetStatement(value)>>)

\* name()
CallOf(name, k) == Call(Variable(<<1, k>>, name), <<>>)

\* fun two(a, b) { print "two"; return 3; }
\* fun l() { print "l"; return 1; }   fun r() { print "r"; return 2; }
\* fun c() { print "c"; return two; } fun n() { print "n"; return 4; }
\* followed by
\*   print l() + r();         for "binary"
\*   print l() + nosuch;      for "right throws"
\*   print nosuch + r();      for "left throws"
\*   print c()(l(), r());     for "call"
\*   n()(l(), r());           for "not callable"
\*   c()(l());                for "arity"
OrderKinds ==
    {"binary", "right throws", "left throws", "call", "not callable", "arity"}

OrderProgram(kind) ==
    << FuncStatement("two", <<"a", "b">>,
                     <<PrintLine("two"), RetStatement(Literal(Num(3)))>>),
       Telling("l", Literal(Num(1))), Telling("r", Literal(Num(2))),
       Telling("c", Variable(<<1, 1>>, "two")), Telling("n", Literal(Num(4))),
       CASE kind = "binary" ->
                PrintStatement(Binary(CallOf("l", 2), "PLUS", CallOf("r", 3)))
         [] kind = "right throws" ->
                PrintStatement(Binary(CallOf("l", 2), "PLUS",
                                      Variable(<<1, 3>>, "nosuch")))
         [] kind = "left throws" ->
                PrintStatement(Binary(Variable(<<1, 2>>, "nosuch"), "PLUS",
                                      CallOf("r", 3)))
         [] kind = "call" ->
                PrintStatement(Call(CallOf("c", 2),
                                    <<CallOf("l", 3), CallOf("r", 4)>>))
         [] kind = "not callable" ->
                ExpressionStatement(Call(CallOf("n", 2),
                                         <<CallOf("l", 3), CallOf("r", 4)>>))
         [] kind = "arity" ->
                ExpressionStatement(Call(CallOf("c", 2), <<CallOf("l", 3)>>)) >>

OrderPrograms == {OrderProgram(kind) : kind \in OrderKinds}

\* the programs run on a fresh interpreter
Scenarios ==
    SuperPrograms \cup SuperclassPrograms \cup CallPrograms \cup GetPrograms
        \cup ArityPrograms \cup ConstructPrograms \cup PropertyPrograms
        \cup BindPrograms \cup CounterPrograms \cup OrderPrograms

(***************************************************************************)
(* Texts for the front end, each the characters of the Lox text in its     *)
(* comment; \n in a comment is the newline character.                      *)
(***************************************************************************)
\* texts of several lines, strings that span lines or never end among them
LineTexts ==
    {
      \* `print "ab\ncd";\nprint 2;`
      <<"p", "r", "i", "n", "t", " ", "\"", "a", "b", "\n", "c", "d", "\"",
        ";", "\n", "p", "r", "i", "n", "t", " ", "2", ";">>,
      \* `var a = 1;\nprint a;\n`
      <<"v", "a", "r", " ", "a", " ", "=", " ", "1", ";", "\n", "p", "r",
        "i", "n", "t", " ", "a", ";", "\n">>,
      \* `// note\nprint 1; // more\n\nprint 2;`
      <<"/", "/", " ", "n", "o", "t", "e", "\n", "p", "r", "i", "n", "t",
        " ", "1", ";", " ", "/", "/", " ", "m", "o", "r", "e", "\n", "\n",
        "p", "r", "i", "n", "t", " ", "2", ";">>,
      \* `var s = "a\n\nb" + "c";`
      <<"v", "a", "r", " ", "s", " ", "=", " ", "\"", "a", "\n", "\n", "b",
        "\"", " ", "+", " ", "\"", "c", "\"", ";">>,
      \* `"ab`
      <<"\"", "a", "b">>,
      \* `print 1;\n"ab\ncd`
      <<"p", "r", "i", "n", "t", " ", "1", ";", "\n", "\"", "a", "b", "\n",
        "c", "d">>,
      \* `while\n(a)\n\t{ }\r\n`
      <<"w", "h", "i", "l", "e", "\n", "(", "a", ")", "\n", "\t", "{", " ",
        "}", "\r", "\n">>,
      \* `!a != b == c <= d >= e;`
      <<"!", "a", " ", "!", "=", " ", "b", " ", "=", "=", " ", "c", " ", "<",
        "=", " ", "d", " ", ">", "=", " ", "e", ";">>,
      \* `e < f > g / 2 * 3 - 1.5 + 10.;`
      <<"e", " ", "<", " ", "f", " ", ">", " ", "g", " ", "/", " ", "2", " ",
        "*", " ", "3", " ", "-", " ", "1", ".", "5", " ", "+", " ", "1", "0",
        ".", ";">>,
      \* `#`
      <<"#">>
    }

\* the sixteen keywords and other lexemes of the form [A-Za-z_][A-Za-z_0-9]*
Words ==
    {
      \* `and`
      <<"a", "n", "d">>,
      \* `class`
      <<"c", "l", "a", "s", "s">>,
      \* `else`
      <<"e", "l", "s", "e">>,
      \* `false`
      <<"f", "a", "l", "s", "e">>,
      \* `fun`
      <<"f", "u", "n">>,
      \* `for`
      <<"f", "o", "r">>,
      \* `if`
      <<"i", "f">>,
      \* `nil`
      <<"n", "i", "l">>,
      \* `or`
      <<"o", "r">>,
      \* `print`
      <<"p", "r", "i", "n", "t">>,
      \* `return`
      <<"r", "e", "t", "u", "r", "n">>,
      \* `super`
      <<"s", "u", "p", "e", "r">>,
      \* `this`
      <<"t", "h", "i", "s">>,
      \* `true`
      <<"t", "r", "u", "e">>,
      \* `var`
      <<"v", "a", "r">>,
      \* `while`
      <<"w", "h", "i", "l", "e">>,
      \* `x`
      <<"x">>,
      \* `foo`
      <<"f", "o", "o">>,
      \* `_a1`
      <<"_", "a", "1">>,
      \* `classy`
      <<"c", "l", "a", "s", "s", "y">>,
      \* `fo`
      <<"f", "o">>,
      \* `For`
      <<"F", "o", "r">>,
      \* `thiss`
      <<"t", "h", "i", "s", "s">>,
      \* `nil0`
      <<"n", "i", "l", "0">>,
      \* `And`
      <<"A", "n", "d">>,
      \* `Or_`
      <<"O", "r", "_">>,
      \* `constructor`
      <<"c", "o", "n", "s", "t", "r", "u", "c", "t", "o", "r">>,
      \* `toString`
      <<"t", "o", "S", "t", "r", "i", "n", "g">>,
      \* `valueOf`
      <<"v", "a", "l", "u", "e", "O", "f">>,
      \* `hasOwnProperty`
      <<"h", "a", "s", "O", "w", "n", "P", "r", "o", "p", "e", "r", "t", "y">>,
      \* `__proto__`
      <<"_", "_", "p", "r", "o", "t", "o", "_", "_">>
    }

\* an `=` after a left side that is neither a Variable nor a Get
InvalidTargets ==
    {
      \* `1 = 2;`
      <<"1", " ", "=", " ", "2", ";">>,
      \* `(a) = 3;`
      <<"(", "a", ")", " ", "=", " ", "3", ";">>,
      \* `a + b = c;`
      <<"a", " ", "+", " ", "b", " ", "=", " ", "c", ";">>,
      \* `-a = 1;`
      <<"-", "a", " ", "=", " ", "1", ";">>,
      \* `a() = 1;`
      <<"a", "(", ")", " ", "=", " ", "1", ";">>,
      \* `"s" = 1;`
      <<"\"", "s", "\"", " ", "=", " ", "1", ";">>,
      \* `this = 1;`
      <<"t", "h", "i", "s", " ", "=", " ", "1", ";">>,
      \* `a = 1 = 2;`
      <<"a", " ", "=", " ", "1", " ", "=", " ", "2", ";">>,
      \* `nil = a.b;`
      <<"n", "i", "l", " ", "=", " ", "a", ".", "b", ";">>
    }

\* an `=` after a Variable or a Get
ValidTargets ==
    {
      \* `a = 1;`
      <<"a", " ", "=", " ", "1", ";">>,
      \* `a.b = 2;`
      <<"a", ".", "b", " ", "=", " ", "2", ";">>,
      \* `a = b = 3;`
      <<"a", " ", "=", " ", "b", " ", "=", " ", "3", ";">>,
      \* `a.b.c = a.d;`
      <<"a", ".", "b", ".", "c", " ", "=", " ", "a", ".", "d", ";">>,
      \* `a.b().c = 1;`
      <<"a", ".", "b", "(", ")", ".", "c", " ", "=", " ", "1", ";">>
    }

\* for statements, with and without initializer, condition and increment
ForTexts ==
    {
      \* `for (var i = 0; i < 2; i = i + 1) print i;`
      <<"f", "o", "r", " ", "(", "v", "a", "r", " ", "i", " ", "=", " ", "0",
        ";", " ", "i", " ", "<", " ", "2", ";", " ", "i", " ", "=", " ", "i",
        " ", "+", " ", "1", ")", " ", "p", "r", "i", "n", "t", " ", "i", ";">>,
      \* `for (;;) print 1;`
      <<"f", "o", "r", " ", "(", ";", ";", ")", " ", "p", "r", "i", "n", "t",
        " ", "1", ";">>,
      \* `for (i = 0; i < 2;) { print i; }`
      <<"f", "o", "r", " ", "(", "i", " ", "=", " ", "0", ";", " ", "i", " ",
        "<", " ", "2", ";", ")", " ", "{", " ", "p", "r", "i", "n", "t", " ",
        "i", ";", " ", "}">>,
      \* `for (; i < 2; i = i + 1) print i;`
      <<"f", "o", "r", " ", "(", ";", " ", "i", " ", "<", " ", "2", ";", " ",
        "i", " ", "=", " ", "i", " ", "+", " ", "1", ")", " ", "p", "r", "i",
        "n", "t", " ", "i", ";">>
    }

\* programs that take the parser through its methods, and texts it rejects
ProgramTexts ==
    {
      \* `class A { m() { print "A"; } }`
      <<"c", "l", "a", "s", "s", " ", "A", " ", "{", " ", "m", "(", ")", " ",
        "{", " ", "p", "r", "i", "n", "t", " ", "\"", "A", "\"", ";", " ",
        "}", " ", "}">>,
      \* `class B < A { init(x, y) { this.x = x; } }`
      <<"c", "l", "a", "s", "s", " ", "B", " ", "<", " ", "A", " ", "{", " ",
        "i", "n", "i", "t", "(", "x", ",", " ", "y", ")", " ", "{", " ", "t",
        "h", "i", "s", ".", "x", " ", "=", " ", "x", ";", " ", "}", " ", "}">>,
      \* `class B < A { m() { super.m(); return; } }`
      <<"c", "l", "a", "s", "s", " ", "B", " ", "<", " ", "A", " ", "{", " ",
        "m", "(", ")", " ", "{", " ", "s", "u", "p", "e", "r", ".", "m", "(",
        ")", ";", " ", "r", "e", "t", "u", "r", "n", ";", " ", "}", " ", "}">>,
      \* `B(1, 2).m();`
      <<"B", "(", "1", ",", " ", "2", ")", ".", "m", "(", ")", ";">>,
      \* `fun f(a, b) { if (a > b) return a; }`
      <<"f", "u", "n", " ", "f", "(", "a", ",", " ", "b", ")", " ", "{", " ",
        "i", "f", " ", "(", "a", " ", ">", " ", "b", ")", " ", "r", "e", "t",
        "u", "r", "n", " ", "a", ";", " ", "}">>,
      \* `if (a) return a; else return b;`
      <<"i", "f", " ", "(", "a", ")", " ", "r", "e", "t", "u", "r", "n", " ",
        "a", ";", " ", "e", "l", "s", "e", " ", "r", "e", "t", "u", "r", "n",
        " ", "b", ";">>,
      \* `print f(1, 2) * -3;`
      <<"p", "r", "i", "n", "t", " ", "f", "(", "1", ",", " ", "2", ")", " ",
        "*", " ", "-", "3", ";">>,
      \* `var i = 0;\nwhile (i < 3) { i = i + 1; }`
      <<"v", "a", "r", " ", "i", " ", "=", " ", "0", ";", "\n", "w", "h",
        "i", "l", "e", " ", "(", "i", " ", "<", " ", "3", ")", " ", "{", " ",
        "i", " ", "=", " ", "i", " ", "+", " ", "1", ";", " ", "}">>,
      \* `if (!(i == 2)) print i;`
      <<"i", "f", " ", "(", "!", "(", "i", " ", "=", "=", " ", "2", ")", ")",
        " ", "p", "r", "i", "n", "t", " ", "i", ";">>,
      \* `var a;\n{ var b = (a); }`
      <<"v", "a", "r", " ", "a", ";", "\n", "{", " ", "v", "a", "r", " ",
        "b", " ", "=", " ", "(", "a", ")", ";", " ", "}">>,
      \* `print a.b.c(1)(2, 3);`
      <<"p", "r", "i", "n", "t", " ", "a", ".", "b", ".", "c", "(", "1", ")",
        "(", "2", ",", " ", "3", ")", ";">>,
      \* `print true != false; print nil;`
      <<"p", "r", "i", "n", "t", " ", "t", "r", "u", "e", " ", "!", "=", " ",
        "f", "a", "l", "s", "e", ";", " ", "p", "r", "i", "n", "t", " ", "n",
        "i", "l", ";">>,
      \* `print (1 + 2;`
      <<"p", "r", "i", "n", "t", " ", "(", "1", " ", "+", " ", "2", ";">>,
      \* `print 1`
      <<"p", "r", "i", "n", "t", " ", "1">>,
      \* `var = 1;`
      <<"v", "a", "r", " ", "=", " ", "1", ";">>,
      \* `var a = 1`
      <<"v", "a", "r", " ", "a", " ", "=", " ", "1">>,
      \* `fun (a) { }`
      <<"f", "u", "n", " ", "(", "a", ")", " ", "{", " ", "}">>,
      \* `fun f a) { }`
      <<"f", "u", "n", " ", "f", " ", "a", ")", " ", "{", " ", "}">>,
      \* `fun f(a, 1) { }`
      <<"f", "u", "n", " ", "f", "(", "a", ",", " ", "1", ")", " ", "{", " ",
        "}">>,
      \* `fun f(a { }`
      <<"f", "u", "n", " ", "f", "(", "a", " ", "{", " ", "}">>,
      \* `fun f(a) print a;`
      <<"f", "u", "n", " ", "f", "(", "a", ")", " ", "p", "r", "i", "n", "t",
        " ", "a", ";">>,
      \* `fun f() { print 1;`
      <<"f", "u", "n", " ", "f", "(", ")", " ", "{", " ", "p", "r", "i", "n",
        "t", " ", "1", ";">>,
      \* `class { }`
      <<"c", "l", "a", "s", "s", " ", "{", " ", "}">>,
      \* `class A < { }`
      <<"c", "l", "a", "s", "s", " ", "A", " ", "<", " ", "{", " ", "}">>,
      \* `class A < B m() { }`
      <<"c", "l", "a", "s", "s", " ", "A", " ", "<", " ", "B", " ", "m", "(",
        ")", " ", "{", " ", "}">>,
      \* `class A { m() { } `
      <<"c", "l", "a", "s", "s", " ", "A", " ", "{", " ", "m", "(", ")", " ",
        "{", " ", "}", " ">>,
      \* `class A { var x; }`
      <<"c", "l", "a", "s", "s", " ", "A", " ", "{", " ", "v", "a", "r", " ",
        "x", ";", " ", "}">>,
      \* `if a print 1;`
      <<"i", "f", " ", "a", " ", "p", "r", "i", "n", "t", " ", "1", ";">>,
      \* `if (a print 1;`
      <<"i", "f", " ", "(", "a", " ", "p", "r", "i", "n", "t", " ", "1", ";">>,
      \* `while a print 1;`
      <<"w", "h", "i", "l", "e", " ", "a", " ", "p", "r", "i", "n", "t", " ",
        "1", ";">>,
      \* `while (a print 1;`
      <<"w", "h", "i", "l", "e", " ", "(", "a", " ", "p", "r", "i", "n", "t",
        " ", "1", ";">>,
      \* `return 1`
      <<"r", "e", "t", "u", "r", "n", " ", "1">>,
      \* `{ print 1;`
      <<"{", " ", "p", "r", "i", "n", "t", " ", "1", ";">>,
      \* `f(1, 2;`
      <<"f", "(", "1", ",", " ", "2", ";">>,
      \* `a.1;`
      <<"a", ".", "1", ";">>,
      \* `super;`
      <<"s", "u", "p", "e", "r", ";">>,
      \* `super.;`
      <<"s", "u", "p", "e", "r", ".", ";">>,
      \* `print ;`
      <<"p", "r", "i", "n", "t", " ", ";">>,
      \* `var constructor = 1;`
      <<"v", "a", "r", " ", "c", "o", "n", "s", "t", "r", "u", "c", "t", "o",
        "r", " ", "=", " ", "1", ";">>,
      \* `if (a) print 1; else { print 2; }`
      <<"i", "f", " ", "(", "a", ")", " ", "p", "r", "i", "n", "t", " ", "1",
        ";", " ", "e", "l", "s", "e", " ", "{", " ", "p", "r", "i", "n", "t",
        " ", "2", ";", " ", "}">>,
      \* `return;`
      <<"r", "e", "t", "u", "r", "n", ";">>,
      \* ``
      <<>>
    }

\* the texts given to the front end
Contents ==
    LineTexts \cup Words \cup InvalidTargets \cup ValidTargets \cup ForTexts
        \cup ProgramTexts

(***************************************************************************)
(* scripts/lox.ts, runInterpreter: the read-resolve-interpret loop around  *)
(* one Interpreter and one Resolver.                                       *)
(*   interpreter, resolver  the two objects                                *)
(*   ast                    the input being processed                      *)
(*   pc                     where the loop stands                          *)
(*   inputNo                how many inputs were read                      *)
(*   thrown                 the name of the exception the catch block      *)
(*                          handled last, "" once an input ran through     *)
(*   resolverBefore         history: the resolver as the last resolve      *)
(*                          call found it                                  *)
(*   resolution             history: how resolver.resolve(ast) ended, "ok" *)
(*                          or the message of its Error; "" until it ran   *)
(* and, where the text of the input is followed through the front end:     *)
(*   content                the text, as a sequence of characters          *)
(*   tokens                 what tokenize(content) returned                *)
(*   failure                the message of the Error that tokenize or      *)
(*                          parse threw, "" for none, with - as history -  *)
(*                          the line and tokenStart of the tokenizer then  *)
(* and, where the environments are used on their own:                      *)
(*   found                  the last getAt or assignAt call: its           *)
(*                          arguments, what it returned or threw, and the  *)
(*                          environments before it                         *)
(***************************************************************************)
VARIABLES interpreter, resolver, ast, pc, inputNo, thrown, resolverBefore,
          resolution, content, tokens, failure, found

vars == <<interpreter, resolver, ast, pc, inputNo, thrown, resolverBefore,
          resolution, content, tokens, failure, found>>

\* the variables of the front end and of the environments on their own
front == <<content, tokens, failure, found>>

NoFailure == [message |-> "", line |-> 0, start |-> 0]

NotCalled == [op |-> ""]

\* the host clock when the session starts
ClockStarts == {1000}

Init ==
    /\ interpreter \in {NewInterpreter(now) : now \in ClockStarts}
    /\ resolver = NewResolver
    /\ ast = <<>>
    /\ pc = "read"
    /\ inputNo = 0
    /\ thrown = ""
    /\ resolverBefore = NewResolver
    /\ resolution = ""
    /\ content = <<>>
    /\ tokens = <<>>
    /\ failure = NoFailure
    /\ found = NotCalled

\* const result = p("> "); const ast = parse(tokenize(result))
Read ==
    /\ pc = "read"
    /\ inputNo < MaxInputs
    /\ \E program \in Inputs(inputNo + 1) : ast' = program
    /\ inputNo' = inputNo + 1
    /\ pc' = "resolve"
    /\ resolution' = ""
    /\ UNCHANGED <<interpreter, resolver, thrown, resolverBefore>>
    /\ UNCHANGED front

\* the catch block: console.log of the error
Report(out, name, message) ==
    IF name = "RuntimeException" THEN Append(out, <<"RuntimeException:", message>>)
    ELSE out \o << <<"Unhandled error:">>, <<name, message>> >>

\* e.message; a ReturnError is built with the message ""
MessageOf(r) == IF r.k = "ReturnError" THEN "" ELSE r.v.x

\* the REPL after resolver.resolve(ast) completed with r: the catch block
\* when it threw, interpret otherwise
Resolved(r) ==
    /\ resolver' = [scopes |-> r.scopes,
                    currentFunction |-> r.currentFunction,
                    currentClass |-> r.currentClass]
    /\ interpreter' = [interpreter EXCEPT
                           !.locals = r.locals,
                           !.out = IF r.err = "" THEN @
                                   ELSE Report(@, "Error", r.err)]
    /\ thrown' = IF r.err = "" THEN thrown ELSE "Error"
    /\ pc' = IF r.err = "" THEN "interpret" ELSE "read"
    /\ resolution' = IF r.err = "" THEN "ok" ELSE r.err

\* resolver.resolve(ast), and the catch block when it throws
Resolve ==
    /\ pc = "resolve"
    /\ Resolved(Resolver_resolve([scopes |-> resolver.scopes,
                                  currentFunction |-> resolver.currentFunction,
                                  currentClass |-> resolver.currentClass,
                                  locals |-> interpreter.locals, err |-> ""],
                                 ast))
    /\ resolverBefore' = resolver
    /\ UNCHANGED <<ast, inputNo>>
    /\ UNCHANGED front

\* the REPL after interpreter.interpret(ast) completed with r: the catch
\* block when it threw
Interpreted(r) ==
    /\ r.k # "LoopBound"
    /\ interpreter' = [r.s EXCEPT !.out = IF r.k = "ok" THEN @
                                          ELSE Report(@, r.k, MessageOf(r))]
    /\ thrown' = IF r.k = "ok" THEN "" ELSE r.k

\* interpreter.interpret(ast), and the catch block when it throws
Interpret ==
    /\ pc = "interpret"
    /\ Interpreted(Interpreter_interpret(ClearHistory(interpreter), ast))
    /\ pc' = "read"
    /\ UNCHANGED <<resolver, ast, inputNo, resolverBefore, resolution>>
    /\ UNCHANGED front

\* if (result === "quit") break
Quit ==
    /\ pc = "read"
    /\ pc' = "quit"
    /\ UNCHANGED <<interpreter, resolver, ast, inputNo, thrown, resolverBefore,
                   resolution>>
    /\ UNCHANGED front

Next == Read \/ Resolve \/ Interpret \/ Quit

Spec == Init /\ [][Next]_vars

(***************************************************************************)
(* The resolver on its own: the first line typed into a fresh REPL is one  *)
(* of the generated programs.                                              *)
(***************************************************************************)
ReadProgram ==
    /\ pc = "read"
    /\ inputNo = 0
    /\ \E program \in Programs : ast' = program
    /\ inputNo' = inputNo + 1
    /\ pc' = "resolve"
    /\ resolution' = ""
    /\ UNCHANGED <<interpreter, resolver, thrown, resolverBefore>>
    /\ UNCHANGED front

NextResolver == ReadProgram \/ Resolve \/ Interpret \/ Quit

SpecResolver == Init /\ [][NextResolver]_vars

(***************************************************************************)
(* The interpreter on its own: the first line typed into a fresh REPL is   *)
(* one of the scenarios.                                                   *)
(***************************************************************************)
ReadScenario ==
    /\ pc = "read"
    /\ inputNo = 0
    /\ \E program \in Scenarios : ast' = program
    /\ inputNo' = inputNo + 1
    /\ pc' = "resolve"
    /\ resolution' = ""
    /\ UNCHANGED <<interpreter, resolver, thrown, resolverBefore>>
    /\ UNCHANGED front

NextProgram == ReadScenario \/ Resolve \/ Interpret \/ Quit

SpecProgram == Init /\ [][NextProgram]_vars

(***************************************************************************)
(* The resolver run twice: the first line typed into a fresh REPL is       *)
(* resolved, and when that succeeded resolver.resolve(ast) is called once  *)
(* more on the same statements with the same Resolver and Interpreter.     *)
(***************************************************************************)
ReadResolvable ==
    /\ pc = "read"
    /\ inputNo = 0
    /\ \E program \in Programs \cup Scenarios \cup ScopePrograms \cup Inputs(1)
                          \cup {AgreementProgram} :
           ast' = program
    /\ inputNo' = inputNo + 1
    /\ pc' = "resolve"
    /\ resolution' = ""
    /\ UNCHANGED <<interpreter, resolver, thrown, resolverBefore>>
    /\ UNCHANGED front

\* after the second resolver.resolve(ast) completed with r
ResolvedAgain(r) ==
    /\ resolver' = [scopes |-> r.scopes,
                    currentFunction |-> r.currentFunction,
                    currentClass |-> r.currentClass]
    /\ interpreter' = [interpreter EXCEPT !.locals = r.locals]
    /\ thrown' = IF r.err = "" THEN thrown ELSE "Error"
    /\ resolution' = IF r.err = "" THEN "ok" ELSE r.err

\* resolver.resolve(ast) a second time
ResolveAgain ==
    /\ pc = "interpret"
    /\ ResolvedAgain(Resolver_resolve([scopes |-> resolver.scopes,
                                       currentFunction |-> resolver.currentFunction,
                                       currentClass |-> resolver.currentClass,
                                       locals |-> interpreter.locals, err |-> ""],
                                      ast))
    /\ pc' = "resolved twice"
    /\ resolverBefore' = resolver
    /\ UNCHANGED <<ast, inputNo>>
    /\ UNCHANGED front

NextResolveTwice == ReadResolvable \/ Resolve \/ ResolveAgain

SpecResolveTwice == Init /\ [][NextResolveTwice]_vars

(***************************************************************************)
(* Resolver and evaluator together: the first line typed into a fresh REPL *)
(* is any of the programs, resolved and, when accepted, interpreted.       *)
(***************************************************************************)
NextAgreement == ReadResolvable \/ Resolve \/ Interpret

SpecAgreement == Init /\ [][NextAgreement]_vars

(***************************************************************************)
(* environment.ts on its own: environments are created inside one another  *)
(* and names defined in them, as Interpreter.executeBlock, LoxFunction     *)
(* .call and the declarations do, and getAt / assignAt are called with any *)
(* distance.                                                               *)
(***************************************************************************)
EnvNames == {"a"}

EnvValues == {Num(1), Num(2)}

\* the environments that exist
Environments == 1..Len(interpreter.envs)

\* the statements do not change
Unread == UNCHANGED <<resolver, ast, pc, inputNo, thrown, resolverBefore,
                      resolution, content, tokens, failure>>

\* new Environment(enclosing)
CreateEnvironment ==
    /\ pc = "read"
    /\ Len(interpreter.envs) < MaxEnvs
    /\ \E enclosing \in Environments :
           interpreter' = NewEnvironment(interpreter, enclosing)
    /\ UNCHANGED found
    /\ Unread

\* env.define(name, value)
Define ==
    /\ pc = "read"
    /\ \E env \in Environments, name \in EnvNames, value \in EnvValues :
           interpreter' = Env_define(interpreter, env, name, value)
    /\ UNCHANGED found
    /\ Unread

\* after the call completed with r
Called(op, env, distance, name, r) ==
    /\ interpreter' = r.s
    /\ found' = [op |-> op, env |-> env, distance |-> distance, name |-> name,
                 k |-> r.k, v |-> r.v, before |-> interpreter.envs]

\* env.getAt(distance, name)
GetAt ==
    /\ pc = "read"
    /\ \E env \in Environments, distance \in 0..MaxEnvs, name \in EnvNames :
           Called("getAt", env, distance, name,
                  Env_getAt(interpreter, env, distance, name))
    /\ Unread

\* env.assignAt(distance, name, value)
AssignAt ==
    /\ pc = "read"
    /\ \E env \in Environments, distance \in 0..MaxEnvs, name \in EnvNames,
          value \in EnvValues :
           Called("assignAt", env, distance, name,
                  Env_assignAt(interpreter, env, distance, name, value))
    /\ Unread

NextEnvironment == CreateEnvironment \/ Define \/ GetAt \/ AssignAt

SpecEnvironment == Init /\ [][NextEnvironment]_vars

(***************************************************************************)
(* The front end on its own: parse(tokenize(content)) for the text of a    *)
(* line typed into the REPL or of a file given to runCompiled.             *)
(***************************************************************************)
\* const result = p("> "), or content = fs.readFileSync(fileName)
ReadContent ==
    /\ pc = "read"
    /\ inputNo = 0
    /\ \E text \in Contents : content' = text
    /\ inputNo' = inputNo + 1
    /\ pc' = "tokenize"
    /\ UNCHANGED <<interpreter, resolver, ast, thrown, resolverBefore, resolution,
                   tokens, failure, found>>

\* the front end after tokenize(content) completed with r
Tokenized(r) ==
    /\ tokens' = IF r.k = "ok" THEN r.v ELSE <<>>
    /\ failure' = IF r.k = "ok" THEN NoFailure
                  ELSE [message |-> r.v, line |-> r.t.line, start |-> r.t.tokenStart]
    /\ thrown' = IF r.k = "ok" THEN thrown ELSE r.k
    /\ pc' = IF r.k = "ok" THEN "parse" ELSE "failed"

\* tokenize(content)
Tokenize ==
    /\ pc = "tokenize"
    /\ Tokenized(tokenize(content))
    /\ UNCHANGED <<interpreter, resolver, ast, inputNo, resolverBefore, resolution,
                   content, found>>

\* the front end after parse(tokens) completed with r
ParsedAs(r) ==
    /\ ast' = IF r.k = "ok" THEN r.v ELSE <<>>
    /\ failure' = IF r.k = "ok" THEN NoFailure
                  ELSE [message |-> r.v, line |-> 0, start |-> 0]
    /\ thrown' = IF r.k = "ok" THEN thrown ELSE r.k
    /\ pc' = IF r.k = "ok" THEN "parsed" ELSE "failed"

\* parse(tokens)
Parse ==
    /\ pc = "parse"
    /\ ParsedAs(parse(tokens, inputNo))
    /\ UNCHANGED <<interpreter, resolver, inputNo, resolverBefore, resolution,
                   content, tokens, found>>

NextFrontEnd == ReadContent \/ Tokenize \/ Parse

SpecFrontEnd == Init /\ [][NextFrontEnd]_vars

(***************************************************************************)
(* Properties of the REPL session.                                         *)
(***************************************************************************)
\* the global bindings of the interpreter
Globals == interpreter.envs[GlobalEnv].data

\* C1: every executeBlock call - of a block statement or of a function body -
\* leaves Interpreter.environment as it found it, whether the statements ran
\* through, a ReturnError passed or an error was thrown
C1_BlockRestoresEnvironment ==
    \A i \in 1..Len(interpreter.blocks) :
        interpreter.blocks[i].exit = interpreter.blocks[i].entry

\* one input whose blocks were left in all three ways
C1_Witness ==
    /\ \E i \in 1..Len(interpreter.blocks) : interpreter.blocks[i].how = "ok"
    /\ \E i \in 1..Len(interpreter.blocks) : interpreter.blocks[i].how = "ReturnError"
    /\ \E i \in 1..Len(interpreter.blocks) :
           interpreter.blocks[i].how = "RuntimeException"

\* the environment that held name where function fn was declared; a name not
\* visible there is a global
DeclaredBinding(fn, name) ==
    IF name \in DOMAIN interpreter.visible[fn] THEN interpreter.visible[fn][name]
    ELSE GlobalEnv

\* a lookup made inside a function that found its name outside of the call:
\* in an environment older than the call
FreeRead(e) == e.fn # 0 /\ e.env <= e.base

\* C2: a free variable of a function body is read from the environment that
\* held the name where the function was declared, on every evaluation
C2_ClosureReadsDeclaredBinding ==
    \A i \in 1..Len(interpreter.reads) :
        FreeRead(interpreter.reads[i])
            => interpreter.reads[i].env
                   = DeclaredBinding(interpreter.reads[i].fn, interpreter.reads[i].name)

\* show() read the global `a` while a later `a` of the enclosing block existed
C2_Witness ==
    \E i \in 1..Len(interpreter.reads) :
        LET e == interpreter.reads[i] IN
        /\ FreeRead(e)
        /\ e.value = Str("global")
        /\ \E j \in 1..e.base :
               /\ j # e.env
               /\ e.name \in DOMAIN interpreter.envs[j].data
               /\ interpreter.envs[j].data[e.name] = Str("local")

\* C3: after an input raised a RuntimeException the loop has printed a
\* `RuntimeException:` line and reads on; until the next input has been
\* interpreted the current environment is the global one and every global
\* bound when the exception was thrown is still bound to the same value
C3_ReplContinuesAfterRuntimeError ==
    /\ [](thrown = "RuntimeException" =>
            /\ interpreter.out[Len(interpreter.out)][1] = "RuntimeException:"
            /\ interpreter.environment = GlobalEnv
            /\ \A n \in DOMAIN interpreter.atThrow :
                   n \in DOMAIN Globals /\ Globals[n] = interpreter.atThrow[n])
    /\ [][(pc = "interpret" /\ thrown' = "RuntimeException") => pc' = "read"]_vars

\* the next input is about to run after an error inside two blocks
C3_Witness ==
    /\ pc = "interpret"
    /\ thrown = "RuntimeException"
    /\ "g" \in DOMAIN interpreter.atThrow
    /\ \E i \in 1..Len(interpreter.blocks) :
           interpreter.blocks[i].how = "RuntimeException"

\* C4: no ReturnError propagates out of Interpreter.interpret
C4_ReturnNeverEscapes == thrown # "ReturnError"

\* a function bound to an instance from a method named init
BoundInitializer(fn) ==
    /\ interpreter.fns[fn].name = "init"
    /\ "this" \in DOMAIN interpreter.envs[interpreter.fns[fn].closure].data

\* C5: a direct call of a bound initializer returns the instance it is bound to
C5_InitializerReturnsInstance ==
    \A i \in 1..Len(interpreter.calls) :
        LET c == interpreter.calls[i] IN
        (c.k = "ok" /\ BoundInitializer(c.fn))
            => c.v = interpreter.envs[interpreter.fns[c.fn].closure].data["this"]

\* C6: an Assignement expression evaluates to the value it assigned
C6_AssignementReturnsValue ==
    \A i \in 1..Len(interpreter.assigns) :
        interpreter.assigns[i].k = "ok"
            => interpreter.assigns[i].v = interpreter.assigns[i].value

\* C7: assigning to a name without resolved depth that the globals do not
\* define raises a RuntimeException and leaves the global bindings as they are
C7_AssignUndefinedGlobalFails ==
    \A i \in 1..Len(interpreter.assigns) :
        LET a == interpreter.assigns[i] IN
        (~a.resolved /\ ~a.defined) => (a.k = "RuntimeException" /\ a.globalsKept)

\* `nosuch = 1` was evaluated, inside a function called from a block
C7_Witness ==
    \E i \in 1..Len(interpreter.assigns) :
        /\ ~interpreter.assigns[i].resolved
        /\ ~interpreter.assigns[i].defined
        /\ interpreter.assigns[i].name = "nosuch"

(***************************************************************************)
(* Properties of the resolver, stated on the syntax of the program it was  *)
(* given.                                                                  *)
(***************************************************************************)
\* resolver.resolve(ast) has run, and the resolver was fresh when it began
ResolvedFresh == resolution # "" /\ resolverBefore = NewResolver

\* the statement list holds a return statement - with a value, or bare -
\* that belongs to a method named init (inInit: the list does)
RECURSIVE ReturnInInitializer(_, _, _)
ReturnInInitializer(stmts, inInit, withValue) ==
    \E i \in 1..Len(stmts) :
        CASE stmts[i].type = "Ret" ->
                inInit /\ ((stmts[i].value # NoExpr) <=> withValue)
          [] stmts[i].type = "Block" ->
                ReturnInInitializer(stmts[i].statements, inInit, withValue)
          [] stmts[i].type = "If" ->
                ReturnInInitializer(<<stmts[i].thenBranch, stmts[i].elseBranch>>,
                                    inInit, withValue)
          [] stmts[i].type = "While" ->
                ReturnInInitializer(<<stmts[i].body>>, inInit, withValue)
          [] stmts[i].type = "Func" ->
                ReturnInInitializer(stmts[i].body, FALSE, withValue)
          [] stmts[i].type = "Class" ->
                \E m \in 1..Len(stmts[i].methods) :
                    ReturnInInitializer(stmts[i].methods[m].body,
                                        stmts[i].methods[m].name = "init", withValue)
          [] OTHER -> FALSE

\* C8: in a method named init the resolver rejects `return <expr>;` and
\* accepts a bare `return;`
C8_InitializerRejectsOnlyValueReturn ==
    ResolvedFresh =>
        /\ ReturnInInitializer(ast, FALSE, TRUE) => resolution # "ok"
        /\ (ast \in ReturnPrograms /\ ReturnInInitializer(ast, FALSE, FALSE))
               => resolution = "ok"

IsDeclaration(st) == st.type \in {"VariableDeclaration", "Func", "Class"}

\* statement i declares a name that the parameters (declared) or an earlier
\* statement of the list declared
DeclaredBefore(stmts, i, declared) ==
    /\ IsDeclaration(stmts[i])
    /\ \/ stmts[i].name \in declared
       \/ \E j \in 1..(i - 1) :
              IsDeclaration(stmts[j]) /\ stmts[j].name = stmts[i].name

\* the parameter list names a parameter twice
ParameterTwice(params) ==
    \E i, j \in 1..Len(params) : i < j /\ params[i] = params[j]

\* a scope that is not the global one declares a name twice: in the list
\* itself (which is global or not, and whose scope already holds the names
\* `declared`) or in a scope under it
RECURSIVE DeclaresTwice(_, _, _)
DeclaresTwice(stmts, declared, global) ==
    \E i \in 1..Len(stmts) :
        \/ ~global /\ DeclaredBefore(stmts, i, declared)
        \/ CASE stmts[i].type = "Block" ->
                    DeclaresTwice(stmts[i].statements, {}, FALSE)
             [] stmts[i].type = "If" ->
                    DeclaresTwice(<<stmts[i].thenBranch, stmts[i].elseBranch>>,
                                  {}, TRUE)
             [] stmts[i].type = "While" ->
                    DeclaresTwice(<<stmts[i].body>>, {}, TRUE)
             [] stmts[i].type = "Func" ->
                    \/ ParameterTwice(stmts[i].params)
                    \/ DeclaresTwice(stmts[i].body,
                                     {stmts[i].params[p] : p \in 1..Len(stmts[i].params)},
                                     FALSE)
             [] stmts[i].type = "Class" ->
                    DeclaresTwice(stmts[i].methods, {}, TRUE)
             [] OTHER -> FALSE

\* C9: a name declared twice in one scope that is not the global one - by
\* var, fun, class or parameter - is a resolve error; declaring a name
\* again at global scope, or in a scope inside the one that declares it, is
\* accepted
C9_DuplicateDeclaration ==
    ResolvedFresh =>
        /\ DeclaresTwice(ast, {}, TRUE) => resolution # "ok"
        /\ (ast \in DeclPrograms /\ DeclaresTwice(ast, {}, TRUE))
               => resolution = "Duplicate variable declaration"
        /\ (ast \in DeclPrograms /\ ~DeclaresTwice(ast, {}, TRUE))
               => resolution = "ok"

\* fun f(a) { class a {} } was rejected
C9_Witness ==
    /\ ResolvedFresh
    /\ ast = DeclProgram("parameter", Declaration("var", "a"),
                         Declaration("class", "a"))
    /\ resolution = "Duplicate variable declaration"

\* the expression holds a Variable expression of that name
RECURSIVE Mentions(_, _)
Mentions(e, name) ==
    CASE e.type = "Variable" -> e.name = name
      [] e.type = "Grouping" -> Mentions(e.expression, name)
      [] e.type = "Unary" -> Mentions(e.value, name)
      [] e.type = "Binary" -> Mentions(e.left, name) \/ Mentions(e.right, name)
      [] e.type = "Call" ->
            \/ Mentions(e.callee, name)
            \/ \E i \in 1..Len(e.argumentsList) : Mentions(e.argumentsList[i], name)
      [] e.type = "Get" -> Mentions(e.object, name)
      [] e.type = "Set" -> Mentions(e.object, name) \/ Mentions(e.value, name)
      [] e.type = "Assignement" -> Mentions(e.value, name)
      [] OTHER -> FALSE

\* a `var` of a scope that is not the global one reads its own name in its
\* initializer
RECURSIVE ReadsOwnInitializer(_, _)
ReadsOwnInitializer(stmts, global) ==
    \E i \in 1..Len(stmts) :
        CASE stmts[i].type = "VariableDeclaration" ->
                ~global /\ Mentions(stmts[i].initializer, stmts[i].name)
          [] stmts[i].type = "Block" ->
                ReadsOwnInitializer(stmts[i].statements, FALSE)
          [] stmts[i].type = "If" ->
                ReadsOwnInitializer(<<stmts[i].thenBranch, stmts[i].elseBranch>>, TRUE)
          [] stmts[i].type = "While" ->
                ReadsOwnInitializer(<<stmts[i].body>>, TRUE)
          [] stmts[i].type = "Func" -> ReadsOwnInitializer(stmts[i].body, FALSE)
          [] stmts[i].type = "Class" ->
                \E m \in 1..Len(stmts[i].methods) :
                    ReadsOwnInitializer(stmts[i].methods[m].body, FALSE)
          [] OTHER -> FALSE

\* C10: a `var` of a scope that is not the global one whose initializer
\* reads the variable itself is a resolve error, whatever the enclosing
\* scopes and the globals define; otherwise - for a `var` at global scope
\* too - that error is not raised
C10_OwnInitializerRejected ==
    ResolvedFresh =>
        /\ ReadsOwnInitializer(ast, TRUE) => resolution # "ok"
        /\ (ast \in InitializerPrograms /\ ReadsOwnInitializer(ast, TRUE))
               => resolution = "Can't read local variable in its own initializer."
        /\ ~ReadsOwnInitializer(ast, TRUE)
               => resolution # "Can't read local variable in its own initializer."

\* var a = 1; { var a = 1 + a; } was rejected
C10_Witness ==
    /\ ResolvedFresh
    /\ ast = InitializerProgram("global-block",
                 VariableDeclarationStatement("a",
                     Binary(Literal(Num(1)), "PLUS", Variable(<<1, 1>>, "a"))),
                 VariableDeclarationStatement("a", Literal(Num(1))))
    /\ resolution = "Can't read local variable in its own initializer."

\* the expression holds a node of that type (This or Super)
RECURSIVE Holds(_, _)
Holds(e, type) ==
    CASE e.type = type -> TRUE
      [] e.type = "Grouping" -> Holds(e.expression, type)
      [] e.type = "Unary" -> Holds(e.value, type)
      [] e.type = "Binary" -> Holds(e.left, type) \/ Holds(e.right, type)
      [] e.type = "Call" ->
            \/ Holds(e.callee, type)
            \/ \E i \in 1..Len(e.argumentsList) : Holds(e.argumentsList[i], type)
      [] e.type = "Get" -> Holds(e.object, type)
      [] e.type = "Set" -> Holds(e.object, type) \/ Holds(e.value, type)
      [] e.type = "Assignement" -> Holds(e.value, type)
      [] OTHER -> FALSE

\* the innermost class declaration around an expression: "NONE", "CLASS" or,
\* with a superclass clause, "SUBCLASS".  `this` is misplaced outside of any
\* class, `super` outside of a class with a superclass clause.
Misplaced(e, class) ==
    \/ class = "NONE" /\ Holds(e, "This")
    \/ class # "SUBCLASS" /\ Holds(e, "Super")

\* some expression of the statement list, which stands in the given class
\* context, holds a misplaced `this` or `super`
RECURSIVE MisplacedIn(_, _)
MisplacedIn(stmts, class) ==
    \E i \in 1..Len(stmts) :
        CASE stmts[i].type \in {"Print", "Expression"} -> Misplaced(stmts[i].exp, class)
          [] stmts[i].type = "VariableDeclaration" ->
                Misplaced(stmts[i].initializer, class)
          [] stmts[i].type = "Ret" -> Misplaced(stmts[i].value, class)
          [] stmts[i].type = "Block" -> MisplacedIn(stmts[i].statements, class)
          [] stmts[i].type = "If" ->
                \/ Misplaced(stmts[i].condition, class)
                \/ MisplacedIn(<<stmts[i].thenBranch, stmts[i].elseBranch>>, class)
          [] stmts[i].type = "While" ->
                \/ Misplaced(stmts[i].condition, class)
                \/ MisplacedIn(<<stmts[i].body>>, class)
          [] stmts[i].type = "Func" -> MisplacedIn(stmts[i].body, class)
          [] stmts[i].type = "Class" ->
                \E m \in 1..Len(stmts[i].methods) :
                    MisplacedIn(stmts[i].methods[m].body,
                                IF stmts[i].superClass # NoExpr THEN "SUBCLASS"
                                ELSE "CLASS")
          [] OTHER -> FALSE

\* C11: a fresh resolver rejects `this` exactly when no class declaration
\* encloses it and `super` exactly when the innermost enclosing class
\* declaration is missing or has no superclass clause; once the input is
\* resolved currentClass is what it was before
C11_ThisAndSuperNeedTheirClass ==
    ResolvedFresh =>
        /\ MisplacedIn(ast, "NONE") => resolution # "ok"
        /\ (ast \in ClassPrograms /\ MisplacedIn(ast, "NONE"))
               => resolution \in {"Can't use 'this' outside of a class.",
                                  "Can't use 'super' outside of a class.",
                                  "Can't use 'super' in a class with no superclass."}
        /\ (ast \in ClassPrograms /\ ~MisplacedIn(ast, "NONE")) => resolution = "ok"
        /\ resolution = "ok" => resolver.currentClass = resolverBefore.currentClass

\* class K < A { m() { class L { n() {} } super.m; } } was accepted: after
\* the nested class the resolver is back in the subclass
C11_Witness ==
    /\ ResolvedFresh
    /\ ast = ClassProgram("subclass-class-after",
                          ExpressionStatement(Super(<<1, 1>>, "m")))
    /\ resolution = "ok"
    /\ resolver.currentClass = "NONE"

(***************************************************************************)
(* Properties of the interpreter, stated on one program run on a fresh     *)
(* interpreter.                                                            *)
(***************************************************************************)
\* the expression holds the Super node with that id
RECURSIVE HoldsSuper(_, _)
HoldsSuper(e, id) ==
    CASE e.type = "Super" -> e.id = id
      [] e.type = "Grouping" -> HoldsSuper(e.expression, id)
      [] e.type = "Unary" -> HoldsSuper(e.value, id)
      [] e.type = "Binary" -> HoldsSuper(e.left, id) \/ HoldsSuper(e.right, id)
      [] e.type = "Call" ->
            \/ HoldsSuper(e.callee, id)
            \/ \E i \in 1..Len(e.argumentsList) : HoldsSuper(e.argumentsList[i], id)
      [] e.type = "Get" -> HoldsSuper(e.object, id)
      [] e.type = "Set" -> HoldsSuper(e.object, id) \/ HoldsSuper(e.value, id)
      [] e.type = "Assignement" -> HoldsSuper(e.value, id)
      [] OTHER -> FALSE

\* the Super node with that id stands in a class declaration - the
\* innermost around it - whose superclass clause names `clause`; `current`
\* is the clause of the class around the statement list, "" for none
RECURSIVE SuperWrittenUnder(_, _, _, _)
SuperWrittenUnder(stmts, id, clause, current) ==
    \E i \in 1..Len(stmts) :
        CASE stmts[i].type \in {"Print", "Expression"} ->
                current = clause /\ HoldsSuper(stmts[i].exp, id)
          [] stmts[i].type = "VariableDeclaration" ->
                current = clause /\ HoldsSuper(stmts[i].initializer, id)
          [] stmts[i].type = "Ret" ->
                current = clause /\ HoldsSuper(stmts[i].value, id)
          [] stmts[i].type = "Block" ->
                SuperWrittenUnder(stmts[i].statements, id, clause, current)
          [] stmts[i].type = "If" ->
                \/ current = clause /\ HoldsSuper(stmts[i].condition, id)
                \/ SuperWrittenUnder(<<stmts[i].thenBranch, stmts[i].elseBranch>>,
                                     id, clause, current)
          [] stmts[i].type = "While" ->
                \/ current = clause /\ HoldsSuper(stmts[i].condition, id)
                \/ SuperWrittenUnder(<<stmts[i].body>>, id, clause, current)
          [] stmts[i].type = "Func" ->
                SuperWrittenUnder(stmts[i].body, id, clause, current)
          [] stmts[i].type = "Class" ->
                \E m \in 1..Len(stmts[i].methods) :
                    SuperWrittenUnder(stmts[i].methods[m].body, id, clause,
                                      IF stmts[i].superClass # NoExpr
                                      THEN stmts[i].superClass.name ELSE "")
          [] OTHER -> FALSE

\* the class of that name, 0 if there is none
ClassNamed(name) ==
    IF \E c \in 1..Len(interpreter.classes) : interpreter.classes[c].name = name
    THEN CHOOSE c \in 1..Len(interpreter.classes) : interpreter.classes[c].name = name
    ELSE 0

\* the method that lookup from class cls must find: its own, else the one
\* of the nearest ancestor; 0 if no class of the chain has one
RECURSIVE MethodOnChain(_, _)
MethodOnChain(cls, name) ==
    IF name \in DOMAIN interpreter.classes[cls].methods
    THEN interpreter.classes[cls].methods[name]
    ELSE IF interpreter.classes[cls].superClass = Nil THEN 0
    ELSE MethodOnChain(interpreter.classes[cls].superClass.cls, name)

\* the instance that `this` stands for in function fn
Receiver(fn) == interpreter.envs[interpreter.fns[fn].closure].data["this"]

\* function fn is method `method` bound to `object`
BoundTo(fn, method, object) ==
    /\ interpreter.fns[fn].name = interpreter.fns[method].name
    /\ interpreter.fns[fn].params = interpreter.fns[method].params
    /\ interpreter.fns[fn].body = interpreter.fns[method].body
    /\ interpreter.envs[interpreter.fns[fn].closure].enclosing
           = interpreter.fns[method].closure
    /\ Receiver(fn) = object

\* C12: `super.m` evaluated in a method finds m starting at the superclass
\* that the class around the expression names, whatever the class of
\* `this`; the method comes bound to the `this` of the running method; a
\* method that the chain does not have is a RuntimeException
C12_SuperIsStatic ==
    \A i \in 1..Len(interpreter.supers) :
        LET e == interpreter.supers[i] IN
        \E clause \in {interpreter.classes[c].name : c \in 1..Len(interpreter.classes)} :
            /\ SuperWrittenUnder(ast, e.node, clause, "")
            /\ IF MethodOnChain(ClassNamed(clause), e.method) = 0
               THEN e.k = "RuntimeException"
               ELSE /\ e.k = "ok"
                    /\ BoundTo(e.v.fn, MethodOnChain(ClassNamed(clause), e.method),
                               Receiver(e.fn))

\* C().test() evaluated super.z in B: Z.z was found, past B.z and C.z, and
\* bound to the instance of C
C12_Witness ==
    \E i \in 1..Len(interpreter.supers) :
        LET e == interpreter.supers[i] IN
        /\ e.method = "z"
        /\ e.k = "ok"
        /\ interpreter.classes[interpreter.insts[Receiver(e.fn).inst].klass].name = "C"
        /\ interpreter.out = << <<"Z.z">> >>

\* the first line of a fresh REPL was resolved without error and
\* interpreter.interpret(ast) is over
HasRun == inputNo = 1 /\ resolution = "ok" /\ pc \in {"read", "quit"}

\* C13: a class declaration whose superclass clause names a variable that
\* holds nil, a number, a string, a boolean, a function or an instance
\* raises a RuntimeException, and leaves the name of the class not bound to
\* a class
C13_SuperclassMustBeAClass ==
    (HasRun /\ \E kind \in NotClassKinds : ast = SuperclassProgram(kind))
        => /\ thrown = "RuntimeException"
           /\ ~("K" \in DOMAIN Globals /\ Globals["K"].t = "LoxClass")

\* C14: a call whose callee is nil, a boolean, a number, a string or an
\* instance raises a RuntimeException, which the REPL reports on a line
\* that starts with `RuntimeException:`
C14_OnlyCallablesAreCalled ==
    (HasRun /\ \E kind \in NotCallableKinds, n \in {0, 1} : ast = CallProgram(kind, n))
        => /\ thrown = "RuntimeException"
           /\ interpreter.out # <<>>
           /\ interpreter.out[Len(interpreter.out)][1] = "RuntimeException:"

\* C15: reading a property of nil, a boolean, a number, a string, a function
\* or a class raises the RuntimeException "Only instances have properties"
C15_OnlyInstancesHaveProperties ==
    (HasRun /\ \E kind \in NotInstanceKinds, name \in {"name", "length"} :
                   ast = GetProgram(kind, name))
        => /\ thrown = "RuntimeException"
           /\ interpreter.out
                  = << <<"RuntimeException:", "Only instances have properties">> >>

\* what a function or initializer of p parameters prints when it is called
\* with the arguments 1, ..., p
BodyWith(p) == << <<"body">> >> \o [i \in 1..p |-> <<ToString(i)>>]

\* C16: a call with a number of arguments other than the arity of the
\* callee raises the RuntimeException "Incorrect number of arguments" before
\* any statement of the function or initializer runs and before an instance
\* is created; a call with as many arguments as parameters runs the body
\* with the i-th parameter bound to the i-th argument
C16_ArityIsCheckedFirst ==
    HasRun =>
        \A kind \in {"function", "class", "bare"}, p, n \in 0..MaxParams :
            (ast = ArityProgram(kind, p, n) /\ (kind = "bare" => p = 0)) =>
                IF p # n
                THEN /\ thrown = "RuntimeException"
                     /\ interpreter.out
                            = << <<"RuntimeException:", "Incorrect number of arguments">> >>
                     /\ interpreter.insts = <<>>
                ELSE /\ thrown = ""
                     /\ interpreter.out = IF kind = "bare" THEN <<>> ELSE BodyWith(p)
                     /\ Len(interpreter.insts) = IF kind = "function" THEN 0 ELSE 1

\* K(1) was evaluated for class K { init(a, b) { ... } }
C16_Witness ==
    /\ HasRun
    /\ ast = ArityProgram("class", 2, 1)
    /\ thrown = "RuntimeException"
    /\ interpreter.insts = <<>>

\* the class of K, P, G - in this order - that is the first to declare init;
\* "" if none does
NearestInit(inits) ==
    IF "K" \in inits THEN "K" ELSE IF "P" \in inits THEN "P"
    ELSE IF "G" \in inits THEN "G" ELSE ""

\* the number of parameters of the init of that class in ConstructProgram
InitParams(class) ==
    CASE class = "G" -> 1 [] class = "P" -> 2 [] OTHER -> 0

\* what the init of that class prints when run once with 1, ..., p
InitPrints(class) ==
    IF class = "" THEN <<>>
    ELSE << <<class \o ".init">> >> \o [i \in 1..InitParams(class) |-> <<ToString(i)>>]

\* the fields that the init of that class leaves on a fresh instance
InitFields(class) ==
    IF class = "" THEN <<>>
    ELSE "x" :> Num(IF InitParams(class) = 0 THEN 0 ELSE 1)

\* the value is an instance of K with the fields that init gives
BuiltBy(value, class) ==
    /\ value.t = "LoxInstance"
    /\ interpreter.classes[interpreter.insts[value.inst].klass].name = "K"
    /\ interpreter.insts[value.inst].fields = InitFields(class)

\* C17: K(args) takes as many arguments as the nearest init on the chain
\* K, P, G has parameters - 0 without init -, runs that init once with the
\* arguments on an instance that has no other field, and yields the
\* instance; two calls yield two instances
C17_ClassCallBuildsInstance ==
    HasRun =>
        \A inits \in SUBSET {"G", "P", "K"}, n \in 0..MaxParams :
            ast = ConstructProgram(inits, n) =>
                IF n # InitParams(NearestInit(inits))
                THEN /\ thrown = "RuntimeException"
                     /\ interpreter.insts = <<>>
                     /\ interpreter.out
                            = << <<"RuntimeException:", "Incorrect number of arguments">> >>
                ELSE /\ thrown = ""
                     /\ interpreter.out
                            = InitPrints(NearestInit(inits)) \o InitPrints(NearestInit(inits))
                     /\ Len(interpreter.insts) = 2
                     /\ BuiltBy(Globals["i"], NearestInit(inits))
                     /\ BuiltBy(Globals["j"], NearestInit(inits))
                     /\ Globals["i"] # Globals["j"]

\* K(1, 2) ran the init of P, which K inherits and G's init stands behind
C17_Witness ==
    /\ HasRun
    /\ ast = ConstructProgram({"G", "P"}, 2)
    /\ thrown = ""
    /\ BuiltBy(Globals["i"], "P")
    /\ interpreter.out = << <<"P.init">>, <<"1">>, <<"2">>, <<"P.init">>, <<"1">>, <<"2">> >>

\* C18: `i.name` is the field of that name when i has one, also when the
\* class has a method of the name; otherwise the method of the class of i
\* or, failing that, of the nearest superclass that has one, bound to i;
\* otherwise a RuntimeException; the fields of i stay as they were
C18_FieldThenMethodThenError ==
    HasRun =>
        \A field \in {"none", "m", "n", "x"}, name \in {"m", "n", "x", "nosuch"} :
            ast = PropertyProgram(field, name) =>
                /\ interpreter.insts[1].fields
                       = IF field = "none" THEN <<>> ELSE field :> Str("field")
                /\ CASE name = field ->
                            thrown = "" /\ Globals["r"] = Str("field")
                     [] name # field /\ name \in {"m", "n"} ->
                            /\ thrown = ""
                            /\ Globals["r"].t = "LoxFunction"
                            /\ interpreter.fns[Globals["r"].fn].body
                                   = <<PrintLine(IF name = "m" THEN "B.m" ELSE "A.n")>>
                            /\ BoundTo(Globals["r"].fn,
                                       MethodOnChain(ClassNamed("B"), name),
                                       Globals["i"])
                     [] OTHER ->
                            thrown = "RuntimeException" /\ "r" \notin DOMAIN Globals

\* i.m was read where i has the field m and B and A have the method m
C18_Witness ==
    /\ HasRun
    /\ ast = PropertyProgram("m", "m")
    /\ Globals["r"] = Str("field")
    /\ MethodOnChain(ClassNamed("B"), "m") # 0

\* the functions whose closure defines `this`: the bound methods
BoundMethods ==
    {f \in 1..Len(interpreter.fns) :
        "this" \in DOMAIN interpreter.envs[interpreter.fns[f].closure].data}

\* C19: a method read from instance i runs with `this` = i on each call,
\* called at once, from a variable or as a field of the instance j; `this`
\* is defined in an environment made for the binding - one for each
\* binding - and never in the closure of the method of the class, so that
\* the bindings to i and to j keep their own receiver
C19_BoundMethodKeepsReceiver ==
    HasRun =>
        \A how \in {"direct", "variable", "field"}, sub \in BOOLEAN :
            ast = BindProgram(how, sub) =>
                /\ thrown = ""
                /\ interpreter.out = << <<"i">>, <<"j">>, <<"i">> >>
                /\ \A c \in 1..Len(interpreter.classes) :
                       \A m \in DOMAIN interpreter.classes[c].methods :
                           interpreter.classes[c].methods[m] \notin BoundMethods
                /\ \A f, g \in BoundMethods :
                       f # g => interpreter.fns[f].closure # interpreter.fns[g].closure
                /\ \A f \in BoundMethods :
                       \E m \in {"init", "who"} :
                           BoundTo(f, interpreter.classes[ClassNamed("K")].methods[m],
                                   Receiver(f))

\* j.f() ran the method read from i, i.f() the one read from j
C19_Witness ==
    /\ HasRun
    /\ ast = BindProgram("field", TRUE)
    /\ interpreter.out = << <<"i">>, <<"j">>, <<"i">> >>
    /\ interpreter.insts[2].fields["f"] \in {FnRef(f) : f \in BoundMethods}
    /\ Receiver(interpreter.insts[2].fields["f"].fn) = InstRef(1)

\* the closure of the function that the global variable holds
ClosureOf(name) == interpreter.fns[Globals[name].fn].closure

\* the functions of that name
FunctionsNamed(name) ==
    {f \in 1..Len(interpreter.fns) : interpreter.fns[f].name = name}

\* C20: two functions declared in one execution of a block or function body
\* have one environment as closure: what a call of one assigns, the next
\* call of the other and the declaring block read; the functions of a later
\* execution of the same block or body have an environment of their own
C20_ClosuresShareTheirScope ==
    HasRun =>
        /\ ast = CounterProgram("block") =>
               /\ thrown = ""
               /\ interpreter.out = << <<"1">>, <<"5">>, <<"6">> >>
               /\ \A f \in FunctionsNamed("up"), g \in FunctionsNamed("show") :
                      interpreter.fns[f].closure = interpreter.fns[g].closure
        /\ \A shape \in {"function", "loop"} :
               ast = CounterProgram(shape) =>
                   /\ thrown = ""
                   /\ interpreter.out = << <<"2">>, <<"0">>, <<"1">>, <<"2">> >>
                   /\ ClosureOf("a") = ClosureOf("b")
                   /\ ClosureOf("up1") = ClosureOf("show1")
                   /\ ClosureOf("a") # ClosureOf("up1")
                   /\ interpreter.envs[ClosureOf("a")].data["n"] = Num(2)
                   /\ interpreter.envs[ClosureOf("up1")].data["n"] = Num(1)

\* make() ran twice; the counter of the first pair of functions is at 2, that
\* of the second pair at 1
C20_Witness ==
    /\ HasRun
    /\ ast = CounterProgram("function")
    /\ interpreter.out = << <<"2">>, <<"0">>, <<"1">>, <<"2">> >>
    /\ ClosureOf("a") # ClosureOf("up1")

(***************************************************************************)
(* Properties of the front end, stated on one text.                        *)
(***************************************************************************)
\* the line of the character at that position: 1 and the newlines before it
LineAt(text, position) ==
    1 + Cardinality({i \in 1..position : text[i] = "\n"})

\* C21: each token carries the line of its first character, a string that
\* spans lines the line of its opening quote, and a string that never ends
\* is reported with the line on which it began
C21_TokensCarryTheirLine ==
    /\ \A i \in 1..Len(tokens) : tokens[i].line = LineAt(content, tokens[i].start)
    /\ failure.message = "Unterminated string."
           => failure.line = LineAt(content, failure.start)

\* the kind of each keyword
KindOfKeyword ==
    {<<"and", "AND">>, <<"class", "CLASS">>, <<"else", "ELSE">>,
     <<"false", "FALSE">>, <<"fun", "FUN">>, <<"for", "FOR">>, <<"if", "IF">>,
     <<"nil", "NIL">>, <<"or", "OR">>, <<"print", "PRINT">>,
     <<"return", "RETURN">>, <<"super", "SUPER">>, <<"this", "THIS">>,
     <<"true", "TRUE">>, <<"var", "VAR">>, <<"while", "WHILE">>}

\* C22: a text that is one lexeme of the form [A-Za-z_][A-Za-z_0-9]* is
\* scanned to one token, of the keyword kind for the sixteen keywords and
\* of the kind IDENTIFIER for any other lexeme; the kind is a member of
\* TokenType
C22_KeywordOrIdentifier ==
    (content \in Words /\ pc \in {"parse", "parsed", "failed"}) =>
        /\ Len(tokens) = 2
        /\ tokens[1].lexeme = Slice(content, 0, Len(content))
        /\ tokens[1].tokenType \in TokenType
        /\ IF \E pair \in KindOfKeyword : pair[1] = tokens[1].lexeme
           THEN <<tokens[1].lexeme, tokens[1].tokenType>> \in KindOfKeyword
           ELSE tokens[1].tokenType = "IDENTIFIER"

\* parse(tokens) has returned or thrown
HasParsed == pc = "parsed" \/ (pc = "failed" /\ tokens # <<>>)

\* C23: an `=` after a left side that is neither a Variable nor a Get is a
\* parse error
C23_InvalidTargetIsAnError ==
    (content \in InvalidTargets /\ HasParsed) => pc = "failed"

\* C24: a for statement is parsed to a Block that ends with a While whose
\* body is a Block
C24_ForIsDesugared ==
    (content \in ForTexts /\ HasParsed) =>
        /\ pc = "parsed"
        /\ Len(ast) = 1
        /\ ast[1].type = "Block"
        /\ ast[1].statements # <<>>
        /\ ast[1].statements[Len(ast[1].statements)].type = "While"
        /\ ast[1].statements[Len(ast[1].statements)].body.type = "Block"

(***************************************************************************)
(* Properties of the resolver run twice, and of the depth it records.      *)
(***************************************************************************)
\* C25: a second run of the resolver on the same statements, after a first
\* run that succeeded, with the same Resolver and Interpreter, succeeds and
\* leaves the resolution map as the first run left it: same keys, same
\* depths
C25_ResolverIsIdempotent ==
    [][(pc = "interpret" /\ pc' = "resolved twice") =>
           /\ resolution' = "ok"
           /\ interpreter'.locals = interpreter.locals
           /\ resolver' = resolver]_vars

\* the resolver ran twice on statements that gave the map entries
C25_Witness ==
    /\ pc = "resolved twice"
    /\ resolution = "ok"
    /\ Cardinality(DOMAIN interpreter.locals) >= 2

\* the names the scopes around the assignment of ScopeProgram(outer, inner)
\* contain, the innermost scope first
ScopesAround(outer, inner) ==
    << IF inner = "none" THEN {} ELSE {"a"}, IF outer THEN {"a"} ELSE {} >>

\* C28: for the assignment to a in ScopeProgram(outer, inner) the resolver
\* records the index, from the innermost scope = 0, of the first scope that
\* contains a, whether a is defined there or only declared, and records
\* nothing only when no scope contains a
C28_FirstScopeContaining ==
    \A outer \in BOOLEAN, inner \in InnerKinds :
        (ast = ScopeProgram(outer, inner) /\ pc = "interpret") =>
            LET scopes == ScopesAround(outer, inner)
                holding == {i \in 1..Len(scopes) : "a" \in scopes[i]}
            IN  IF holding = {} THEN <<1, 1>> \notin DOMAIN interpreter.locals
                ELSE /\ <<1, 1>> \in DOMAIN interpreter.locals
                     /\ interpreter.locals[<<1, 1>>] + 1 \in holding
                     /\ \A i \in holding : interpreter.locals[<<1, 1>>] + 1 <= i

(***************************************************************************)
(* The resolver of the REPL after an input it rejected.                    *)
(***************************************************************************)
\* C26: when the resolution of an input raised an error, the resolver that
\* the REPL keeps for the next input is clean: no scope on the stack,
\* currentFunction NONE, currentClass NONE
C26_CleanAfterResolveError ==
    (pc = "read" /\ resolution \notin {"", "ok"}) => resolver = NewResolver

(***************************************************************************)
(* Properties of the environments on their own.                            *)
(***************************************************************************)
\* the environment that the last getAt or assignAt call reached by its
\* distance, 0 when the chain is shorter
Reached == Env_ancestor([envs |-> found.before], found.env, found.distance)

\* the call was made on a chain long enough, and the environment reached
\* did not itself hold the name
ReachedWithout ==
    /\ found.op # ""
    /\ Reached # 0
    /\ found.name \notin DOMAIN found.before[Reached].data

\* C27: when the environment reached by exactly `distance` enclosing links
\* does not itself hold the name, getAt does not return and assignAt does
\* not change any binding
C27_OnlyTheEnvironmentReached ==
    ReachedWithout =>
        /\ found.op = "getAt" => found.k # "ok"
        /\ found.op = "assignAt" => interpreter.envs = found.before

(***************************************************************************)
(* Resolver and evaluator together.                                        *)
(***************************************************************************)
\* C29: each time the evaluator reads or assigns a Variable, Assignement,
\* This or Super node that has depth d in the resolution map, the chain of
\* environments is at least d long and the environment exactly d links out
\* itself holds the name
C29_DepthReachesTheHolder ==
    \A i \in 1..Len(interpreter.lookups) :
        /\ interpreter.lookups[i].reached # 0
        /\ interpreter.lookups[i].holder = interpreter.lookups[i].reached

\* an accepted program ran and looked up `this` or `super` and the name of
\* a variable, each one link out or more
C29_Witness ==
    /\ pc = "read"
    /\ resolution = "ok"
    /\ \E i, j \in 1..Len(interpreter.lookups) :
           /\ interpreter.lookups[i].name \in {"this", "super"}
           /\ interpreter.lookups[i].distance >= 1
           /\ interpreter.lookups[j].name \notin {"this", "super"}
           /\ interpreter.lookups[j].distance >= 1
    /\ interpreter.out = << <<"A.m">>, <<"2">> >>

(***************************************************************************)
(* The order in which operands are evaluated.                              *)
(***************************************************************************)
\* what OrderProgram(kind) prints when a Binary evaluates its right operand
\* before its left one, and a Call its callee and then its arguments from
\* left to right, before it tests the callee and the number of arguments
LinesInOrder(kind) ==
    CASE kind = "binary" -> << <<"r">>, <<"l">>, <<"3">> >>
      [] kind = "right throws" ->
            << <<"RuntimeException:", "Undefined variable">> >>
      [] kind = "left throws" ->
            << <<"r">>, <<"RuntimeException:", "Undefined variable">> >>
      [] kind = "call" -> << <<"c">>, <<"l">>, <<"r">>, <<"two">>, <<"3">> >>
      [] kind = "not callable" ->
            << <<"n">>, <<"l">>, <<"r">>,
               <<"RuntimeException:",
                 "Tried to call something that wasn't a function">> >>
      [] kind = "arity" ->
            << <<"c">>, <<"l">>,
               <<"RuntimeException:", "Incorrect number of arguments">> >>

\* C30: a Binary evaluates its right operand before its left one, so what
\* the right one prints comes first and an error it raises keeps the left
\* one from being evaluated; a Call evaluates its callee, then its arguments
\* from left to right, and only then tests that the callee can be called and
\* takes that many arguments
C30_OperandsInOrder ==
    \A kind \in OrderKinds :
        (HasRun /\ ast = OrderProgram(kind)) => interpreter.out = LinesInOrder(kind)

\* the two operands of `l() + r()` printed, the right one first, and the
\* sum after them
C30_Witness ==
    /\ HasRun
    /\ ast = OrderProgram("binary")
    /\ interpreter.out = << <<"r">>, <<"l">>, <<"3">> >>

====
